---------------------------- MODULE Spec2Model ----------------------------
(***************************************************************************)
(* Verification model of ipmiserial: the SOL session supervisor            *)
(* (sol/manager.go), the go-sol transport (vendor/github.com/gwest/go-sol) *)
(* and the inventory glue (main.go, discovery/scanner.go).                 *)
(*                                                                         *)
(* The module holds several specifications over one set of variables.      *)
(* Each specification drives one group of variables and leaves the others  *)
(* at their initial value:                                                 *)
(*   SpecHub   the subscribe / unsubscribe / broadcast fabric              *)
(*   Spec      the session map, the supervisor tasks, the health check     *)
(*             and the inventory change handler                            *)
(*   SpecRead  the transport's read pump and its inactivity timer          *)
(***************************************************************************)
EXTENDS Integers, Sequences, FiniteSets, TLC

(***************************************************************************)
(* Generic helpers                                                         *)
(***************************************************************************)
Range(s) == {s[i] : i \in 1..Len(s)}

StrictlyIncreasing(s) == \A i, j \in 1..Len(s) : i < j => s[i] < s[j]

(***************************************************************************)
(* Bounds of the model                                                     *)
(***************************************************************************)
\* number of Subscribe calls (each makes a fresh channel)
MaxChans == 2
\* number of chunks the supervisor broadcasts
MaxChunks == 2
\* capacity of a subscriber channel; make(chan []byte, 64) in the code,
\* scaled down so that a full channel is reached within MaxChunks
SubChanCap == 1
\* number of StartSession calls (each makes a fresh Session and supervisor task)
MaxSess == 2
\* number of consecutive waits the wait counter of a supervisor task tells apart
MaxWaits == 8
\* failed connects and read-pump errors the BMC and the network cause while
\* one supervisor task is watched
MaxFaults == 8
\* the same while the whole Manager is watched
MaxFaultsSup == 1
\* number of OnChange handler calls that run at the same time
MaxHandlers == 1
\* number of chunks the BMCs send
MaxData == 2
\* number of Session.Write calls on one transport
MaxWrites == 2
\* most bytes of one Session.Write call
MaxWriteLen == 2
\* capacity of writeCh; make(chan []byte, 100) in the code, scaled down
WriteChCap == 1
\* the least ActivatePayload answer tried for the outbound payload size:
\* with the two above it, one that gives the default chunk size and two
\* that split a write
MinOutbound == 4
\* number of keepalive ticks of one transport
MaxKeepalives == 1
\* number of ACK-only packets the read pump sends
MaxAcks == 1
\* number of callers of Session.Close on one transport
MaxClosers == 2
\* socket write errors of one transport while its socket is open
MaxTxFaults == 1
\* number of character payloads the BMC sends to one transport
MaxIn == 4
\* capacity of readLoop's queue; make(chan []byte, 10000) in the code, scaled down
QueueCap == 1
\* capacity of readCh; make(chan []byte, 1000) in the code, scaled down
ReadChCap == 1
\* the same two while Close is watched with all pumps running
MaxWritesClose == 1
MaxInClose == 1
\* number of Connect calls of one supervisor task
MaxConnects == 3
\* capacity of the screen buffer; defaultScreenBufSize = 64 * 1024 in the
\* code, scaled down
SbCap == 2
\* most bytes of one ScreenBuffer.Write
MaxChunkLen == 3
\* most bytes written to the screen buffer between two Resets
MaxTotal == 5
\* number of watch events and inventory lists the scanner handles
MaxEvents == 3
\* number of saves of each state file
MaxSaves == 2

\* log writer: Write calls, bytes per chunk, seconds of the clock
MaxLogWrites == 2
MaxLogChunk == 2
MaxDupWrites == 5
TickStep == 5
MaxClock == 15

\* log directory: operations and steps of the clock
MaxRtOps == 4
MaxRtTicks == 2

\* boot analytics: chunks processed and rotations requested
MaxTexts == 2
MaxBootRotations == 1

\* rotation cooldown (s), retention (days), seconds of a day
Cooldown == 120
RetentionDays == 30
DaySecs == 86400

(***************************************************************************)
(* Program constants (seconds)                                             *)
(***************************************************************************)
\* backoff := time.Second
BackoffStart == 1
\* if backoff > 60*time.Second { backoff = 60 * time.Second }
BackoffCap == 60
\* if time.Since(connectTime) > 30*time.Second { backoff = time.Second }
ResetAfter == 30
\* const staleThreshold = 90 * time.Second
StaleThreshold == 90
\* Connect sleeps 500 ms before it activates the payload: the least time a
\* successful Connect takes, in whole seconds
ConnectTime == 1
\* connectSOL: InactivityTimeout: 2 * time.Minute, seconds
InactivityTimeout == 120

VARIABLES
    \* ---- broadcast fabric (Manager.subscribers of one server name) ----
    subsHdr,      \* slice header of m.subscribers[name]: [arr, len]; arr = 0 is the nil slice
    arrays,       \* backing arrays, by allocation order; each a sequence of channel ids, 0 = unset slot
    chanSt,       \* channel id -> "unborn" | "open" | "closed"
    chanBuf,      \* channel id -> buffered chunks (oldest first)
    delivered,    \* channel id -> chunks its receiver has taken, in order (history)
    subAt,        \* channel id -> last chunk whose broadcast had returned when Subscribe returned (history)
    bc,           \* the supervisor's call of broadcast: pc, chunk, snapshot header, index
    nextChunk,    \* id of the next chunk to broadcast
    panicked,     \* a send on a closed channel panicked the process
    \* ---- session supervisor (Manager.sessions and the tasks of runSession) ----
    sessions,     \* m.sessions: server name -> Session id, 0 = no entry
    sess,         \* Session id -> the Session struct: name, ip, user, pass, connected, cancelled, sol
    nextSess,     \* id of the next Session StartSession makes
    tpc,          \* Session id -> where its runSession task is
    backoff,      \* Session id -> runSession's backoff, seconds
    sinceConn,    \* Session id -> time.Since(connectTime), seconds, kept up to ResetAfter + 1
    sinceEst,     \* Session id -> -1, or seconds since Connect succeeded, kept up to ResetAfter (history)
    nWaits,       \* Session id -> waits since the task started or last reset its backoff (history)
    cur,          \* Session id -> the transport of the current connectSOL call (its local solSession)
    prev,         \* Session id -> the transport of the last connectSOL call that has returned with one
    faults,       \* failures the BMC and the network may still cause
    \* ---- inventory glue (Scanner.servers, the OnChange handler) and the health check ----
    servers,      \* Scanner.servers: server name -> the Server struct: known, online, ip, user, pass
    hnd,          \* handler instance -> where the OnChange callback is, and the Session it got
    hc,           \* the healthCheck task: pc, stale names, RestartSession's locals
    \* ---- the transport's read pump (Session.readLoop) ----
    rdPc,         \* "run" | "exited"
    rdLast,       \* seconds since the stored lastRecvTime, kept up to InactivityTimeout + 1
    rdQuiet,      \* seconds since a datagram last arrived, kept up to InactivityTimeout + 1 (history)
    rdErr,        \* what errCh holds: "none" | "inactivity" | "socket"
    rdDone,       \* Close has raised the done signal
    \* ---- the data branch of connectSOL (readCh and the four consumers) ----
    rbuf,         \* Session id -> the chunks buffered in its transport's readCh, oldest first
    fch,          \* Session id -> the chunk its task is handing out, 0 = none
    nextData,     \* id of the next chunk a BMC sends
    received,     \* the chunks in the order the tasks took them from readCh (history)
    handed,       \* <<consumer, chunk>> in the order the consumers were called (history)
    \* ---- the transmit side of one transport (go-sol Session) ----
    integrityAlg, \* s.integrityAlg: "none" | "hmac_sha1_96"
    maxOutbound,  \* s.maxOutbound
    solSeqNum,    \* s.solSeqNum, uint8
    sessionSeq,   \* s.sessionSeq
    closed,       \* s.closed
    doneN,        \* how often close(s.done) ran; done is raised when > 0
    connOpen,     \* s.conn has not been closed
    writeCh,      \* s.writeCh: queued writes [id, n]
    wcall,        \* the running call of Session.Write: pc, id, n bytes
    nextW,        \* id of the next Write call
    wret,         \* Write call -> what it returned: "none" (not yet) | "nil" | "session closed"
    wfail,        \* Write call -> sending its bytes met a socket error (history)
    wl,           \* writeLoop: pc, the write in hand, bytes left, header.PacketSeq
    pkt,          \* the last packet put on the wire
    nPkts,        \* number of packets put on the wire since Connect
    lastData,     \* packet sequence number of the last SOL data packet, -1 = none yet
    prevData,     \* the same of the SOL data packet before that one
    au,           \* sender of IPMI commands -> pc, loaded sessionSeq, command
    nKa,          \* keepalive ticks so far
    nAcks,        \* ACK-only packets so far
    sent,         \* command -> how often Close has sent it (history)
    txFaults,     \* socket write errors still to come
    \* ---- the receive side of one transport (go-sol Session) ----
    rxPc,         \* readLoop: "top" | "read" | "closing" | "exited"
    drainPc,      \* the drain task: "range" | "select" | "exited"
    queue,        \* readLoop's internal queue
    qClosed,      \* close(queue) has run
    hold,         \* the payload the drain task has in hand, 0 = none
    readCh,       \* s.readCh
    readChClosed, \* close(s.readCh) has run
    acked,        \* payloads acknowledged to the BMC, in arrival order (history)
    got,          \* payloads the receiver of Read() has taken, in order (history)
    nextIn,       \* arrival number of the next payload
    rxErr,        \* errCh holds an error of readLoop
    \* ---- Session.Connect under connectSOL ----
    cnPc,         \* where Connect is: "idle" | "dial" | a handshake step | "deact" | "activate1..3" | "start" | "returned"
    cnSteps,      \* the steps of this Connect that have succeeded, in order
    cnConn,       \* the UDP socket of this Session: "none" | "open" | "closed"
    cnPumps,      \* the pumps this Connect has started
    cnRet,        \* what this Connect returned: "none" (not yet) | "nil" | "error"
    cnFailedAt,   \* the step this Connect gave up at, "none" if it did not (history)
    cnMarked,     \* session.Connected
    cnLastError,  \* session.LastError: "" or what the last connection failed at
    cnTry,        \* number of Connect calls so far
    \* ---- the screen buffer of one server ----
    sbData,       \* sb.data
    sbAll,        \* the bytes written since creation or the last Reset (history)
    sbOut,        \* what the last Bytes() returned and sbAll at that call (history)
    \* ---- the inventory scanner ----
    scServers,    \* Scanner.servers: name -> entry
    cacheFile,    \* bmh-cache.json: whether it exists and the map it holds
    scSaves,      \* calls of Cache.Save so far (history)
    scNotes,      \* onChange notifications issued so far (history)
    scPending,    \* handler tasks started and not yet run: the names each was given
    scRunning,    \* names with a SOL session
    scEv,         \* the last watch event or list handled: type and names (history)
    nEv,          \* number of events and lists handled
    \* ---- the state files on disk ----
    cPath,        \* bmh-cache.json
    cTmp,         \* bmh-cache.json.tmp
    aPath,        \* analytics.json
    csPc,         \* Cache.Save: "idle" | "open" | "write" | "rename"
    csVer,        \* number of the save Cache.Save is making or made last
    anPc,         \* Analytics.save: "idle" | "open" | "write"
    anVer,        \* number of the save Analytics.save is making or made last
    crashed,      \* the process has been killed
    \* ---- the log writer, one server ----
    writer,       \* pending, lastLine, trailingNL and repeats of the server
    logFile,      \* the bytes appended to the server's log file
    lastChunk,    \* the chunk of the last Write call (history)
    lastOut,      \* the bytes the last Write call appended (history)
    clock,        \* time.Now, seconds
    nWrites,      \* number of Write calls
    run,          \* the identical lines written last, one after the other (history)
    \* ---- the log directory of one server ----
    dirExists,    \* the directory of the server exists
    onDisk,       \* the regular files of the directory: name -> modification time
    currentLog,   \* the symlink current.log: [exists, target, mtime]
    files,        \* w.files of the server: the name of the open file, or none
    lastRotation, \* w.lastRotation of the server: [exists, at]
    rtNow,        \* time.Now, seconds
    rtOp,         \* the last operation on the directory (history)
    nRtOps,       \* number of operations
    nRtTicks,     \* number of steps of the clock
    \* ---- boot analytics: Analytics.servers[name] (logs/writer.go) ----
    analytics,    \* the ServerAnalytics of the server
    nTexts,       \* chunks processed so far
    \* ---- the stream handler of one client (server/sse.go handleStream) ----
    stCatch,      \* the catchup the handler sent: where it came from, its bytes, the last chunk broadcast before it (history)
    stLog,        \* the chunks appended to the server's current log
    \* ---- the BMC as sender of SOL data packets ----
    bmcSent       \* the packet sequence numbers of the SOL data packets the BMC has sent one after the other (arrival number -> PacketSeq)

hubVars == <<subsHdr, arrays, chanSt, chanBuf, delivered, subAt, bc, nextChunk, panicked>>

supVars == <<sessions, sess, nextSess, tpc, backoff, sinceConn, sinceEst, nWaits, cur, prev, faults>>

invVars == <<servers, hnd, hc>>

rdVars == <<rdPc, rdLast, rdQuiet, rdErr, rdDone>>

txVars == <<integrityAlg, maxOutbound, solSeqNum, sessionSeq, closed, doneN, connOpen,
           writeCh, wcall, nextW, wret, wfail, wl, pkt, nPkts, lastData, prevData,
           au, nKa, nAcks, sent, txFaults>>
rxVars == <<rxPc, drainPc, queue, qClosed, hold, readCh, readChClosed, acked, got,
           nextIn, rxErr>>
cnVars == <<cnPc, cnSteps, cnConn, cnPumps, cnRet, cnFailedAt, cnMarked, cnLastError,
           cnTry>>
sbVars == <<sbData, sbAll, sbOut>>
scVars == <<scServers, cacheFile, scSaves, scNotes, scPending, scRunning, scEv, nEv>>
fsVars == <<cPath, cTmp, aPath, csPc, csVer, anPc, anVer, crashed>>
lwVars == <<writer, logFile, lastChunk, lastOut, clock, nWrites, run>>
rtVars == <<dirExists, onDisk, currentLog, files, lastRotation, rtNow, rtOp, nRtOps, nRtTicks>>
btVars == <<analytics, nTexts>>
stVars == <<stCatch, stLog>>
bmVars == <<bmcSent>>
fanVars == <<rbuf, fch, nextData, received, handed>>

\* the parts added to the first four
extVars == <<fanVars, txVars, rxVars, cnVars, sbVars, scVars, fsVars, lwVars, rtVars, btVars, stVars, bmVars>>

vars == <<hubVars, supVars, invVars, rdVars, extVars>>

\* what the steps of one part leave alone
offHub == <<supVars, invVars, rdVars, extVars>>

offSup == <<hubVars, invVars, rdVars, extVars>>

offInv == <<hubVars, rdVars, extVars>>

offRd == <<hubVars, supVars, invVars, extVars>>

offFan == <<hubVars, invVars, rdVars, txVars, rxVars, cnVars, sbVars, scVars, fsVars, lwVars, rtVars, btVars, stVars, bmVars>>
offTx == <<hubVars, supVars, invVars, rdVars, fanVars, rxVars, cnVars, sbVars, scVars, fsVars, lwVars, rtVars, btVars, stVars, bmVars>>
offRx == <<hubVars, supVars, invVars, rdVars, fanVars, txVars, cnVars, sbVars, scVars, fsVars, lwVars, rtVars, btVars, stVars, bmVars>>
offSb == <<hubVars, supVars, invVars, rdVars, fanVars, txVars, rxVars, cnVars, scVars, fsVars, lwVars, rtVars, btVars, stVars, bmVars>>
offSc == <<hubVars, supVars, invVars, rdVars, fanVars, txVars, rxVars, cnVars, sbVars, fsVars, lwVars, rtVars, btVars, stVars, bmVars>>
offFs == <<hubVars, supVars, invVars, rdVars, fanVars, txVars, rxVars, cnVars, sbVars, scVars, lwVars, rtVars, btVars, stVars, bmVars>>
offLw == <<hubVars, supVars, invVars, rdVars, fanVars, txVars, rxVars, cnVars, sbVars, scVars, fsVars, rtVars, btVars, stVars, bmVars>>
offRt == <<hubVars, supVars, invVars, rdVars, fanVars, txVars, rxVars, cnVars, sbVars, scVars, fsVars, lwVars, btVars, stVars, bmVars>>
offRtLw == <<hubVars, supVars, invVars, rdVars, fanVars, txVars, rxVars, cnVars, sbVars, scVars, fsVars, btVars, stVars, bmVars>>
offBt == <<hubVars, supVars, invVars, rdVars, fanVars, txVars, rxVars, cnVars, sbVars, scVars, fsVars, lwVars, rtVars, stVars, bmVars>>
offBtFs == <<hubVars, supVars, invVars, rdVars, fanVars, txVars, rxVars, cnVars, sbVars, scVars, lwVars, rtVars, stVars, bmVars>>
offSt == <<hubVars, supVars, invVars, rdVars, fanVars, txVars, rxVars, cnVars, sbVars, scVars, fsVars, lwVars, rtVars, btVars, bmVars>>
offStSb == <<hubVars, supVars, invVars, rdVars, fanVars, txVars, rxVars, cnVars, scVars, fsVars, lwVars, rtVars, btVars, bmVars>>
offBm == <<hubVars, supVars, invVars, rdVars, fanVars, txVars, rxVars, cnVars, sbVars, scVars, fsVars, lwVars, rtVars, btVars, stVars>>
offCn == <<hubVars, supVars, invVars, rdVars, fanVars, txVars, rxVars, sbVars, scVars, fsVars, lwVars, rtVars, btVars, stVars, bmVars>>

Chans == 1..MaxChans

\* connectSOL, line 399: the first broadcast of a connection is the
\* clear-screen sequence ESC[2J ESC[H; the chunks after it are its data
ClearScreen == 1

(***************************************************************************)
(* Broadcast fabric: Subscribe, Unsubscribe, broadcast                     *)
(***************************************************************************)
HubInit ==
    /\ subsHdr = [arr |-> 0, len |-> 0]
    /\ arrays = <<>>
    /\ chanSt = [c \in Chans |-> "unborn"]
    /\ chanBuf = [c \in Chans |-> <<>>]
    /\ delivered = [c \in Chans |-> <<>>]
    /\ subAt = [c \in Chans |-> 0]
    /\ bc = [pc |-> "idle", chunk |-> 0, arr |-> 0, len |-> 0, i |-> 0,
             stable |-> {}, full |-> {}]
    /\ nextChunk = 1
    /\ panicked = FALSE

\* capacity of the slice behind a header
CapOf(hdr) == IF hdr.arr = 0 THEN 0 ELSE Len(arrays[hdr.arr])

\* the channels a header lists
Listed(hdr) == IF hdr.arr = 0 THEN {} ELSE {arrays[hdr.arr][k] : k \in 1..hdr.len}

\* append's growth of a full slice that needs one more slot
GrowCap(cap) == IF cap = 0 THEN 1 ELSE 2 * cap

\* the last chunk whose broadcast has returned
LastReturned == IF bc.pc = "iter" THEN bc.chunk - 1 ELSE nextChunk - 1

\* ch := make(chan []byte, 64); m.subscribers[name] = append(m.subscribers[name], ch)
Subscribe(c) ==
    /\ ~panicked
    /\ chanSt[c] = "unborn"
    /\ \A d \in Chans : d < c => chanSt[d] # "unborn"
    /\ chanSt' = [chanSt EXCEPT ![c] = "open"]
    /\ subAt' = [subAt EXCEPT ![c] = LastReturned]
    /\ IF subsHdr.len < CapOf(subsHdr)
         THEN /\ arrays' = [arrays EXCEPT ![subsHdr.arr][subsHdr.len + 1] = c]
              /\ subsHdr' = [subsHdr EXCEPT !.len = subsHdr.len + 1]
         ELSE LET old == IF subsHdr.arr = 0 THEN <<>> ELSE SubSeq(arrays[subsHdr.arr], 1, subsHdr.len)
                  ncap == GrowCap(CapOf(subsHdr))
                  fresh == [k \in 1..ncap |-> IF k <= Len(old) THEN old[k]
                                              ELSE IF k = Len(old) + 1 THEN c ELSE 0]
              IN /\ arrays' = Append(arrays, fresh)
                 /\ subsHdr' = [arr |-> Len(arrays) + 1, len |-> subsHdr.len + 1]
    /\ UNCHANGED <<chanBuf, delivered, bc, nextChunk, panicked, offHub>>

\* the slice after append(subs[:i], subs[i+1:]...): the tail is copied down
\* inside the same backing array, whose old last slot keeps its value
CompactInPlace(a, i, len) ==
    [k \in 1..Len(a) |-> IF k >= i /\ k < len THEN a[k + 1] ELSE a[k]]

\* Unsubscribe(name, ch): called by the stream handler when its client goes away
Unsubscribe(c) ==
    /\ ~panicked
    /\ chanSt[c] = "open"
    /\ LET a == arrays[subsHdr.arr]
           hits == {k \in 1..subsHdr.len : a[k] = c}
       IN IF hits = {}
            THEN UNCHANGED <<arrays, subsHdr, chanSt, chanBuf>>
            ELSE LET i == CHOOSE k \in hits : \A m \in hits : k <= m
                 IN /\ arrays' = [arrays EXCEPT ![subsHdr.arr] = CompactInPlace(a, i, subsHdr.len)]
                    /\ subsHdr' = [subsHdr EXCEPT !.len = subsHdr.len - 1]
                    /\ chanSt' = [chanSt EXCEPT ![c] = "closed"]
                    /\ chanBuf' = [chanBuf EXCEPT ![c] = <<>>]
    /\ bc' = [bc EXCEPT !.stable = bc.stable \ {c}]
    /\ UNCHANGED <<delivered, subAt, nextChunk, panicked, offHub>>

\* broadcast, lines 220-222: the slice header is read under the read lock
BroadcastSnapshot ==
    /\ ~panicked
    /\ bc.pc \in {"idle", "returned"}
    /\ nextChunk <= MaxChunks
    /\ bc' = [pc |-> "iter", chunk |-> nextChunk, arr |-> subsHdr.arr,
              len |-> subsHdr.len, i |-> 1,
              stable |-> Listed(subsHdr),
              full |-> {c \in Listed(subsHdr) : Len(chanBuf[c]) >= SubChanCap}]
    /\ nextChunk' = nextChunk + 1
    /\ UNCHANGED <<subsHdr, arrays, chanSt, chanBuf, delivered, subAt, panicked, offHub>>

\* select { case ch <- data: default: } on a channel
TrySend(buf, chunk) == IF Len(buf) < SubChanCap THEN Append(buf, chunk) ELSE buf

\* broadcast, lines 223-229: one iteration of the range loop, lock released;
\* the element is read from the backing array when the iteration runs
BroadcastSend ==
    /\ ~panicked
    /\ bc.pc = "iter"
    /\ bc.i <= bc.len
    /\ LET ch == arrays[bc.arr][bc.i]
       IN IF chanSt[ch] = "closed"
            THEN /\ panicked' = TRUE
                 /\ UNCHANGED chanBuf
            ELSE /\ chanBuf' = [chanBuf EXCEPT ![ch] = TrySend(chanBuf[ch], bc.chunk)]
                 /\ UNCHANGED panicked
    /\ bc' = [bc EXCEPT !.i = bc.i + 1]
    /\ UNCHANGED <<subsHdr, arrays, chanSt, delivered, subAt, nextChunk, offHub>>

\* broadcast returns when the range loop is over
BroadcastReturn ==
    /\ ~panicked
    /\ bc.pc = "iter"
    /\ bc.i > bc.len
    /\ bc' = [bc EXCEPT !.pc = "returned"]
    /\ UNCHANGED <<subsHdr, arrays, chanSt, chanBuf, delivered, subAt, nextChunk, panicked, offHub>>

\* the stream handler takes the next chunk from its channel
Recv(c) ==
    /\ ~panicked
    /\ chanSt[c] = "open"
    /\ chanBuf[c] # <<>>
    /\ delivered' = [delivered EXCEPT ![c] = Append(delivered[c], Head(chanBuf[c]))]
    /\ chanBuf' = [chanBuf EXCEPT ![c] = Tail(chanBuf[c])]
    /\ UNCHANGED <<subsHdr, arrays, chanSt, subAt, bc, nextChunk, panicked, offHub>>

HubNext ==
    \/ \E c \in Chans : Subscribe(c)
    \/ \E c \in Chans : Unsubscribe(c)
    \/ BroadcastSnapshot
    \/ BroadcastSend
    \/ BroadcastReturn
    \/ \E c \in Chans : Recv(c)

(***************************************************************************)
(* Session supervisor: Manager.sessions, StartSession / StopSession /      *)
(* RestartSession, runSession and connectSOL, and the transport as the     *)
(* supervisor sees it                                                      *)
(***************************************************************************)
Names == {"srv1"}
\* the BMH objects the inventory serves: address, user, secret
Objects == {<<"ip1", "u1", "p1">>, <<"ip1", "u2", "p2">>, <<"ip2", "", "">>}
\* m.username / m.password: the configured fallback credentials
FallbackUser == "fu"
FallbackPass == "fp"
\* how far the clock moves in one step, seconds
TickSteps == {ResetAfter}
\* how long a BMC stays silent in one step, seconds
SilenceSteps == {StaleThreshold}

SessIds == 1..MaxSess

NoSession == [name |-> "", ip |-> "", user |-> "", pass |-> "",
              connected |-> FALSE, cancelled |-> FALSE, sol |-> "nil"]

\* the transport connectSOL holds in its local solSession.
\* st: "none" | "connecting" | "active" (Connect has returned nil, the pumps
\* run); closed: Close has run (done raised, pumps told to stop, socket
\* closed); rl: the read pump, "none" | "run" | "exited" (readCh is closed);
\* err: errCh holds an error; idle: seconds since lastRecvTime, kept up to
\* StaleThreshold + 1; term: the read pump ended with a terminal error (history)
NoTransport == [st |-> "none", closed |-> FALSE, rl |-> "none", err |-> FALSE,
                idle |-> 0, term |-> FALSE]

\* the transport of the last connectSOL call that has returned with one.
\* st: "none" | "open" | "closed" | "lost" (open and no longer referenced);
\* term: its read pump ended with a terminal error
NoPrev == [st |-> "none", term |-> FALSE]

\* connectSOL returns: its local solSession is gone, session.solSession still
\* points to the transport
Left(t) == [st |-> IF t.closed THEN "closed" ELSE "open", term |-> t.term]

Sat(t, cap) == IF t > cap THEN cap ELSE t

SupInit ==
    /\ sessions = [n \in Names |-> 0]
    /\ sess = [i \in SessIds |-> NoSession]
    /\ nextSess = 1
    /\ tpc = [i \in SessIds |-> "none"]
    /\ backoff = [i \in SessIds |-> BackoffStart]
    /\ sinceConn = [i \in SessIds |-> 0]
    /\ sinceEst = [i \in SessIds |-> -1]
    /\ nWaits = [i \in SessIds |-> 0]
    /\ cur = [i \in SessIds |-> NoTransport]
    /\ prev = [i \in SessIds |-> NoPrev]
    /\ faults = 0

\* if username == "" { username = m.username }
EffUser(u) == IF u = "" THEN FallbackUser ELSE u
\* if password == "" { password = m.password }
EffPass(p) == IF p = "" THEN FallbackPass ELSE p

\* existing.cancel()
CancelExisting(ss, e) == [ss EXCEPT ![e].cancelled = TRUE]

\* existing.solSession.Close() on the transport the Session records, if any:
\* the effect on cur
CloseRecordedCur(e) ==
    IF sess[e].sol = "cur" THEN [cur EXCEPT ![e].closed = TRUE] ELSE cur

\* existing.solSession.Close(): the effect on prev
CloseRecordedPrev(e) ==
    IF sess[e].sol = "prev" /\ prev[e].st = "open"
      THEN [prev EXCEPT ![e].st = "closed"] ELSE prev

\* StartSession(serverName, ip, username, password), under m.mu: what it does
\* to the Manager and its tasks
StartSession(n, ip, u, p) ==
    /\ nextSess <= MaxSess
    /\ LET e == sessions[n]
           id == nextSess
           fresh == [name |-> n, ip |-> ip, user |-> EffUser(u), pass |-> EffPass(p),
                     connected |-> FALSE, cancelled |-> FALSE, sol |-> "nil"]
       IN /\ sess' = [(IF e # 0 THEN CancelExisting(sess, e) ELSE sess) EXCEPT ![id] = fresh]
          /\ cur' = IF e # 0 THEN CloseRecordedCur(e) ELSE cur
          /\ prev' = IF e # 0 THEN CloseRecordedPrev(e) ELSE prev
          /\ sessions' = [sessions EXCEPT ![n] = id]
          /\ nextSess' = id + 1
          /\ tpc' = [tpc EXCEPT ![id] = "top"]
    /\ UNCHANGED <<backoff, sinceConn, sinceEst, nWaits, faults>>

\* StopSession(serverName), under m.mu
StopSession(n) ==
    /\ LET e == sessions[n]
       IN IF e # 0
            THEN /\ sess' = CancelExisting(sess, e)
                 /\ cur' = CloseRecordedCur(e)
                 /\ prev' = CloseRecordedPrev(e)
                 /\ sessions' = [sessions EXCEPT ![n] = 0]
            ELSE UNCHANGED <<sess, cur, prev, sessions>>
    /\ UNCHANGED <<nextSess, tpc, backoff, sinceConn, sinceEst, nWaits, faults>>

\* runSession returns: its locals are gone
TaskReturn(s) ==
    /\ tpc' = [tpc EXCEPT ![s] = "exit"]
    /\ backoff' = [backoff EXCEPT ![s] = BackoffStart]
    /\ sinceConn' = [sinceConn EXCEPT ![s] = 0]
    /\ sinceEst' = [sinceEst EXCEPT ![s] = -1]
    /\ nWaits' = [nWaits EXCEPT ![s] = 0]

\* runSession, lines 290-294: the backoff after connectSOL returned its error
BackoffAfterFailure(b, since) == IF since > ResetAfter THEN BackoffStart ELSE b

\* runSession, lines 285-299: connectSOL has returned an error (it never
\* returns nil): the backoff is reset or kept and the task waits; with the
\* context already cancelled the select returns at once, time.After(backoff)
\* not having fired
AfterError(s) ==
    IF sess[s].cancelled
      THEN TaskReturn(s)
      ELSE /\ backoff' = [backoff EXCEPT ![s] = BackoffAfterFailure(backoff[s], sinceConn[s])]
           /\ nWaits' = [nWaits EXCEPT ![s] = IF sinceConn[s] > ResetAfter THEN 0 ELSE @]
           /\ tpc' = [tpc EXCEPT ![s] = "wait"]
           /\ sinceConn' = [sinceConn EXCEPT ![s] = 0]
           /\ sinceEst' = [sinceEst EXCEPT ![s] = -1]

\* runSession, lines 274-283, and connectSOL up to sol.New: the loop head of a
\* new task; cancelled: return; else connectTime is taken and a new transport
\* is made
TaskTop(s) ==
    /\ tpc[s] = "top"
    /\ IF sess[s].cancelled
         THEN /\ TaskReturn(s)
              /\ UNCHANGED cur
         ELSE /\ tpc' = [tpc EXCEPT ![s] = "connect"]
              /\ sinceConn' = [sinceConn EXCEPT ![s] = 0]
              /\ cur' = [cur EXCEPT ![s] = [NoTransport EXCEPT !.st = "connecting"]]
              /\ UNCHANGED <<backoff, sinceEst, nWaits>>
    /\ UNCHANGED <<sessions, sess, nextSess, prev, faults, offSup>>

\* connectSOL, lines 363-365 and 385-390: the log directory cannot be made, or
\* Connect fails (it has closed its socket and started no pump)
TaskConnectFail(s) ==
    /\ tpc[s] = "connect"
    /\ faults > 0
    /\ faults' = faults - 1
    /\ cur' = [cur EXCEPT ![s] = NoTransport]
    /\ sess' = [sess EXCEPT ![s].connected = FALSE]
    /\ AfterError(s)
    /\ UNCHANGED <<sessions, nextSess, prev, offSup>>

\* connectSOL, line 385, and Connect, lines 162-170: Connect returns nil
\* (sendRecv never looks at the context, so also after a cancel), having
\* taken at least ConnectTime; the pumps run
TaskConnectOk(s) ==
    /\ tpc[s] = "connect"
    /\ tpc' = [tpc EXCEPT ![s] = "publish"]
    /\ cur' = [cur EXCEPT ![s] = [NoTransport EXCEPT !.st = "active", !.rl = "run"]]
    /\ sinceConn' = [sinceConn EXCEPT ![s] = Sat(@ + ConnectTime, ResetAfter + 1)]
    /\ sinceEst' = [sinceEst EXCEPT ![s] = 0]
    /\ UNCHANGED <<sessions, sess, nextSess, backoff, nWaits, prev, faults, offSup>>

\* connectSOL, lines 392-407: the Session records the transport (no lock
\* held) and is marked Connected
TaskPublish(s) ==
    /\ tpc[s] = "publish"
    /\ tpc' = [tpc EXCEPT ![s] = "loop"]
    /\ prev' = [prev EXCEPT ![s].st = IF sess[s].sol = "prev" /\ @ = "open" THEN "lost" ELSE @]
    /\ sess' = [sess EXCEPT ![s].sol = "cur", ![s].connected = TRUE]
    /\ UNCHANGED <<sessions, nextSess, backoff, sinceConn, sinceEst, nWaits, cur, faults, offSup>>

\* connectSOL, lines 411-415: case <-ctx.Done(): Close, and back in runSession
SelectCancel(s) ==
    /\ tpc[s] = "loop"
    /\ sess[s].cancelled
    /\ prev' = [prev EXCEPT ![s] = Left([cur[s] EXCEPT !.closed = TRUE])]
    /\ cur' = [cur EXCEPT ![s] = NoTransport]
    /\ sess' = [sess EXCEPT ![s].connected = FALSE, ![s].sol = "prev"]
    /\ AfterError(s)
    /\ UNCHANGED <<sessions, nextSess, faults, offSup>>

\* connectSOL, lines 417-421: case err := <-errCh: Close, and back in runSession
SelectErr(s) ==
    /\ tpc[s] = "loop"
    /\ cur[s].err
    /\ prev' = [prev EXCEPT ![s] = Left([cur[s] EXCEPT !.closed = TRUE])]
    /\ cur' = [cur EXCEPT ![s] = NoTransport]
    /\ sess' = [sess EXCEPT ![s].connected = FALSE, ![s].sol = "prev"]
    /\ AfterError(s)
    /\ UNCHANGED <<sessions, nextSess, faults, offSup>>

\* connectSOL, lines 423-427: case data, ok := <-readCh with !ok (readCh is
\* closed and empty): no Close, and back in runSession
SelectReadClosed(s) ==
    /\ tpc[s] = "loop"
    /\ cur[s].rl = "exited"
    /\ rbuf[s] = <<>>
    /\ prev' = [prev EXCEPT ![s] = Left(cur[s])]
    /\ cur' = [cur EXCEPT ![s] = NoTransport]
    /\ sess' = [sess EXCEPT ![s].connected = FALSE, ![s].sol = "prev"]
    /\ AfterError(s)
    /\ UNCHANGED <<sessions, nextSess, faults, offSup>>

\* runSession, lines 298-299: case <-ctx.Done() while waiting
WaitCancel(s) ==
    /\ tpc[s] = "wait"
    /\ sess[s].cancelled
    /\ TaskReturn(s)
    /\ UNCHANGED <<sessions, sess, nextSess, cur, prev, faults, offSup>>

\* doubling without the cap
DoubleBackoff(b) == 2 * b

\* runSession, lines 301-304
NextBackoff(b) == IF 2 * b > BackoffCap THEN BackoffCap ELSE 2 * b

\* the task gives up after its wait
WaitGiveUp(s) ==
    /\ tpc[s] = "wait"
    /\ TaskReturn(s)
    /\ UNCHANGED <<sessions, sess, nextSess, cur, prev, faults, offSup>>

\* runSession, lines 300-305 and 274-283: case <-time.After(backoff), then the
\* loop head: cancelled: return; else connectTime is taken and connectSOL
\* makes a new transport
WaitTimer(s) ==
    /\ tpc[s] = "wait"
    /\ IF sess[s].cancelled
         THEN /\ TaskReturn(s)
              /\ UNCHANGED cur
         ELSE /\ backoff' = [backoff EXCEPT ![s] = NextBackoff(backoff[s])]
              /\ nWaits' = [nWaits EXCEPT ![s] = Sat(@ + 1, MaxWaits)]
              /\ tpc' = [tpc EXCEPT ![s] = "connect"]
              /\ sinceConn' = [sinceConn EXCEPT ![s] = 0]
              /\ cur' = [cur EXCEPT ![s] = [NoTransport EXCEPT !.st = "connecting"]]
              /\ UNCHANGED sinceEst
    /\ UNCHANGED <<sessions, sess, nextSess, prev, faults, offSup>>

\* readLoop, line 210: a datagram from the BMC refreshes lastRecvTime
PumpDatagram(s) ==
    /\ cur[s].st = "active" /\ cur[s].rl = "run" /\ ~cur[s].closed
    /\ cur[s].idle > 0
    /\ cur' = [cur EXCEPT ![s].idle = 0]
    /\ UNCHANGED <<sessions, sess, nextSess, tpc, backoff, sinceConn, sinceEst, nWaits, prev, faults, offSup>>

\* readLoop, lines 178-203 and 138: inactivity timeout or a fatal socket
\* error; the error is posted on errCh, the pump returns and its deferred
\* close(s.readCh) runs
PumpTerminalError(s) ==
    /\ cur[s].st = "active" /\ cur[s].rl = "run" /\ ~cur[s].closed
    /\ faults > 0
    /\ faults' = faults - 1
    /\ cur' = [cur EXCEPT ![s].rl = "exited", ![s].err = TRUE, ![s].term = TRUE]
    /\ UNCHANGED <<sessions, sess, nextSess, tpc, backoff, sinceConn, sinceEst, nWaits, prev, offSup>>

\* readLoop, lines 165-168 and 138: the pump sees done, returns, and its
\* deferred close(s.readCh) runs
PumpExit(s) ==
    /\ cur[s].st = "active" /\ cur[s].rl = "run" /\ cur[s].closed
    /\ cur' = [cur EXCEPT ![s].rl = "exited"]
    /\ UNCHANGED <<sessions, sess, nextSess, tpc, backoff, sinceConn, sinceEst, nWaits, prev, faults, offSup>>

\* time passes for the supervisor tasks: time.Since(connectTime) grows
Tick(d) ==
    /\ sinceConn' = [i \in SessIds |->
                        IF tpc[i] \in {"connect", "publish", "loop"}
                          THEN Sat(sinceConn[i] + d, ResetAfter + 1) ELSE sinceConn[i]]
    /\ sinceEst' = [i \in SessIds |->
                        IF tpc[i] \in {"publish", "loop"}
                          THEN Sat(sinceEst[i] + d, ResetAfter) ELSE sinceEst[i]]
    /\ <<sinceConn', sinceEst'>> # <<sinceConn, sinceEst>>
    /\ UNCHANGED <<sessions, sess, nextSess, tpc, backoff, nWaits, cur, prev, faults, offSup>>

\* the BMCs stay silent: time.Since(lastRecvTime) grows on every open transport
Silence(d) ==
    /\ cur' = [i \in SessIds |->
                        IF cur[i].st = "active" /\ ~cur[i].closed
                          THEN [cur[i] EXCEPT !.idle = Sat(@ + d, StaleThreshold + 1)] ELSE cur[i]]
    /\ cur' # cur
    /\ UNCHANGED <<sessions, sess, nextSess, tpc, backoff, sinceConn, sinceEst, nWaits, prev, faults, offSup>>

TaskStep(s) ==
    \/ TaskTop(s)
    \/ TaskConnectFail(s)
    \/ TaskConnectOk(s)
    \/ TaskPublish(s)
    \/ SelectCancel(s)
    \/ SelectErr(s)
    \/ SelectReadClosed(s)
    \/ WaitCancel(s)
    \/ WaitTimer(s)

PumpStep(s) ==
    \/ PumpDatagram(s)
    \/ PumpTerminalError(s)
    \/ PumpExit(s)

\* a caller of the Manager starts or stops a session
CallStart(n, o) == StartSession(n, o[1], o[2], o[3]) /\ UNCHANGED offSup

CallStop(n) == sessions[n] # 0 /\ StopSession(n) /\ UNCHANGED offSup

(***************************************************************************)
(* The data branch of connectSOL: a chunk is taken from readCh and handed  *)
(* to broadcast, the screen buffer, the log writer and analytics           *)
(* (manager.go, lines 423-446). tpc is "bcast", "screen", "log" or "stats" *)
(* while a task is between two of these calls.                             *)
(***************************************************************************)
Consumers == <<"broadcast", "screen", "log", "analytics">>

FanInit ==
    /\ rbuf = [i \in SessIds |-> <<>>]
    /\ fch = [i \in SessIds |-> 0]
    /\ nextData = 1
    /\ received = <<>>
    /\ handed = <<>>

\* readLoop, lines 243-261, and its drain task, lines 145-154: console bytes
\* from the BMC reach readCh
DataArrive(s) ==
    /\ cur[s].st = "active" /\ cur[s].rl = "run" /\ ~cur[s].closed
    /\ nextData <= MaxData
    /\ rbuf' = [rbuf EXCEPT ![s] = Append(@, nextData)]
    /\ nextData' = nextData + 1
    /\ cur' = [cur EXCEPT ![s].idle = 0]
    /\ UNCHANGED <<sessions, sess, nextSess, tpc, backoff, sinceConn, sinceEst, nWaits,
                   prev, faults, fch, received, handed, offFan>>

\* connectSOL, lines 423-429: case data, ok := <-readCh with ok; the select
\* takes this case whenever readCh holds a chunk, whatever else is ready
SelectData(s) ==
    /\ tpc[s] = "loop"
    /\ rbuf[s] # <<>>
    /\ tpc' = [tpc EXCEPT ![s] = "bcast"]
    /\ fch' = [fch EXCEPT ![s] = Head(rbuf[s])]
    /\ rbuf' = [rbuf EXCEPT ![s] = Tail(@)]
    /\ received' = Append(received, Head(rbuf[s]))
    /\ UNCHANGED <<sessions, sess, nextSess, backoff, sinceConn, sinceEst, nWaits,
                   cur, prev, faults, nextData, handed, offFan>>

\* the call that follows the one made at pc, and the pc after the last one
AfterCall(pc) ==
    CASE pc = "bcast" -> "screen"
      [] pc = "screen" -> "log"
      [] pc = "log" -> "stats"
      [] pc = "stats" -> "loop"

\* the consumer called at pc
CalledAt(pc) ==
    CASE pc = "bcast" -> Consumers[1]
      [] pc = "screen" -> Consumers[2]
      [] pc = "log" -> Consumers[3]
      [] pc = "stats" -> Consumers[4]

\* connectSOL, lines 432, 435, 438-440 and 443-445: m.broadcast, sb.Write,
\* m.logWriter.Write, m.analytics.ProcessText, one call per step
HandOut(s) ==
    /\ tpc[s] \in {"bcast", "screen", "log", "stats"}
    /\ handed' = Append(handed, <<CalledAt(tpc[s]), fch[s]>>)
    /\ tpc' = [tpc EXCEPT ![s] = AfterCall(tpc[s])]
    /\ fch' = [fch EXCEPT ![s] = IF AfterCall(tpc[s]) = "loop" THEN 0 ELSE @]
    /\ UNCHANGED <<sessions, sess, nextSess, backoff, sinceConn, sinceEst, nWaits,
                   cur, prev, faults, rbuf, nextData, received, offFan>>

(***************************************************************************)
(* RestartSession and the health check (sol/manager.go)                    *)
(***************************************************************************)
\* the healthCheck task: pc "idle" | "read" | "stop" | "start"; n: the name
\* being restarted; ip, user, pass: RestartSession's locals; judged: the
\* Session the scan found stale; stopped: the Session RestartSession's
\* StopSession removed (history), 0 = none
HcIdle == [pc |-> "idle", n |-> "", ip |-> "", user |-> "", pass |-> "",
           judged |-> 0, stopped |-> 0]

\* session.solSession.LastRecvTime() as time.Since sees it
IdleOf(e) == IF sess[e].sol = "cur" THEN cur[e].idle ELSE 0

\* healthCheck, lines 246-260: the Session is stale
IsStale(e) ==
    /\ sess[e].connected
    /\ \/ sess[e].sol = "nil"
       \/ IdleOf(e) > StaleThreshold

\* healthCheck, lines 242-263: a tick of the 60 s ticker; the stale names are
\* collected under the read lock
HC_Scan ==
    /\ hc.pc = "idle"
    /\ LET stale == {n \in Names : sessions[n] # 0 /\ IsStale(sessions[n])}
       IN IF stale = {}
            THEN hc' = HcIdle
            ELSE \E n \in stale :
                    hc' = [HcIdle EXCEPT !.pc = "read", !.n = n, !.judged = sessions[n]]
    /\ UNCHANGED <<supVars, servers, hnd, offInv>>

\* a caller asks for a restart
CallRestart(n) ==
    /\ hc.pc = "idle"
    /\ sessions[n] # 0
    /\ hc' = [HcIdle EXCEPT !.pc = "read", !.n = n, !.judged = sessions[n]]
    /\ UNCHANGED <<supVars, servers, hnd, offInv>>

\* RestartSession, lines 131-140: address and credentials are read under the lock
R_Read ==
    /\ hc.pc = "read"
    /\ LET e == sessions[hc.n]
       IN IF e = 0
            THEN hc' = HcIdle
            ELSE hc' = [hc EXCEPT !.pc = "stop", !.ip = sess[e].ip,
                                  !.user = sess[e].user, !.pass = sess[e].pass]
    /\ UNCHANGED <<supVars, servers, hnd, offInv>>

\* RestartSession, line 143: m.StopSession(serverName)
R_Stop ==
    /\ hc.pc = "stop"
    /\ StopSession(hc.n)
    /\ hc' = [hc EXCEPT !.pc = "start", !.stopped = sessions[hc.n]]
    /\ UNCHANGED <<servers, hnd, offInv>>

\* RestartSession, lines 144-145: clearBMCSessions, then m.StartSession
R_Start ==
    /\ hc.pc = "start"
    /\ StartSession(hc.n, hc.ip, hc.user, hc.pass)
    /\ hc' = HcIdle
    /\ UNCHANGED <<servers, hnd, offInv>>

(***************************************************************************)
(* Inventory: Scanner.applyBMH and the OnChange handler of main.go         *)
(***************************************************************************)
Handlers == 1..MaxHandlers

Unknown == [known |-> FALSE, online |-> FALSE, ip |-> "", user |-> "", pass |-> ""]

\* pc: "idle" | "get" | "start" | "restop" | "restart"; got: the Session
\* GetSession returned, 0 = nil
HndIdle == [pc |-> "idle", got |-> 0]

\* applyBMH, lines 292-328: the entry after a BMH object with a non-empty
\* address has been applied
Applied(old, addr, u, p) ==
    IF old.known
      THEN [old EXCEPT !.ip = addr, !.online = TRUE,
                       !.user = IF u # "" THEN u ELSE @,
                       !.pass = IF p # "" THEN p ELSE @]
      ELSE [known |-> TRUE, online |-> TRUE, ip |-> addr, user |-> u, pass |-> p]

\* fetchBMH / watchBMH: a BMH object is applied; on a change the handler is
\* run as a new task (go s.onChange(s.GetServers()))
ApplyBMH(n, o) ==
    /\ servers' = [servers EXCEPT ![n] = Applied(servers[n], o[1], o[2], o[3])]
    /\ IF servers'[n] # servers[n]
         THEN \E h \in Handlers :
                 /\ hnd[h].pc = "idle"
                 /\ \A g \in Handlers : g < h => hnd[g].pc # "idle"
                 /\ hnd' = [hnd EXCEPT ![h] = [pc |-> "get", got |-> 0]]
         ELSE UNCHANGED hnd
    /\ UNCHANGED <<supVars, hc, offInv>>

\* Scanner.Run, lines 156-158: the handler is called after the first fetch,
\* whether or not anything changed
NotifyUnchanged ==
    /\ \E h \in Handlers :
          /\ hnd[h].pc = "idle"
          /\ \A g \in Handlers : g < h => hnd[g].pc # "idle"
          /\ hnd' = [hnd EXCEPT ![h] = [pc |-> "get", got |-> 0]]
    /\ UNCHANGED <<supVars, servers, hc, offInv>>

\* main.go, lines 82-91: session := solManager.GetSession(name), and the
\* branch. The branch !s.Online && session != nil (lines 86-88) is never
\* taken: nothing sets Online to false, and a session is only started for an
\* online server
H_Get(h, n) ==
    /\ hnd[h].pc = "get"
    /\ LET e == sessions[n]
           s == servers[n]
           to == CASE ~s.known -> "idle"
                   [] s.known /\ s.online /\ e = 0 -> "start"
                   [] s.known /\ s.online /\ e # 0 ->
                         IF sess[e].user # s.user \/ sess[e].pass # s.pass
                           THEN "restop" ELSE "idle"
                   [] OTHER -> "idle"
       IN hnd' = [hnd EXCEPT ![h] = [pc |-> to, got |-> IF to = "idle" THEN 0 ELSE e]]
    /\ UNCHANGED <<supVars, servers, hc, offInv>>

\* the credentials of the Session the handler got, in place of the inventory's
GotArgs(h, n) ==
    IF hnd[h].got = 0
      THEN <<servers[n].ip, servers[n].user, servers[n].pass>>
      ELSE <<sess[hnd[h].got].ip, sess[hnd[h].got].user, sess[hnd[h].got].pass>>

\* main.go, lines 85 and 94: the arguments s.IP, s.Username, s.Password
HandlerArgs(h, n) == <<servers[n].ip, servers[n].user, servers[n].pass>>

\* main.go, line 85: solManager.StartSession(name, s.IP, s.Username, s.Password)
H_Start(h, n) ==
    /\ hnd[h].pc = "start"
    /\ StartSession(n, HandlerArgs(h, n)[1], HandlerArgs(h, n)[2], HandlerArgs(h, n)[3])
    /\ hnd' = [hnd EXCEPT ![h] = HndIdle]
    /\ UNCHANGED <<servers, hc, offInv>>

\* main.go, line 93: solManager.StopSession(name) of the credentials branch
H_RestartStop(h, n) ==
    /\ hnd[h].pc = "restop"
    /\ StopSession(n)
    /\ hnd' = [hnd EXCEPT ![h].pc = "restart"]
    /\ UNCHANGED <<servers, hc, offInv>>

\* main.go, line 94: solManager.StartSession(name, s.IP, s.Username, s.Password)
H_RestartStart(h, n) ==
    /\ hnd[h].pc = "restart"
    /\ StartSession(n, HandlerArgs(h, n)[1], HandlerArgs(h, n)[2], HandlerArgs(h, n)[3])
    /\ hnd' = [hnd EXCEPT ![h] = HndIdle]
    /\ UNCHANGED <<servers, hc, offInv>>

(***************************************************************************)
(* The read pump of the transport: Session.readLoop (go-sol/payload.go)    *)
(* rdPc: "run" | "exited"; rdLast: seconds since lastRecvTime; rdQuiet:    *)
(* seconds since the BMC's last datagram of any kind reached the socket;   *)
(* rdErr: what errCh holds, "none" | "inactivity" | "socket"; rdDone: the  *)
(* done channel is closed. Both clocks are kept up to InactivityTimeout+1. *)
(***************************************************************************)
\* what a datagram can be: SOL data, ACK-only, a keepalive reply, one shorter
\* than 20 bytes, one that is not a SOL payload
Kinds == {"sol", "ack", "keepalive", "short", "nonsol"}

\* how long nothing arrives in one step, seconds
QuietSteps == {1, 60}

\* lastRecvTime refreshed for SOL data only
RefreshSolOnly(kind, last) == IF kind = "sol" THEN 0 ELSE last

\* readLoop, line 210: s.lastRecvTime.Store(time.Now()), before any look at
\* what the datagram is
Refreshed(kind, last) == 0

\* errCh has room for one error and only readLoop writes to it
\* (select { case s.errCh <- err: default: })
Posted(old, e) == IF old = "none" THEN e ELSE old

\* nothing arrives for d seconds
RdQuiet(d) ==
    /\ rdPc = "run"
    /\ rdLast' = Sat(rdLast + d, InactivityTimeout + 1)
    /\ rdQuiet' = Sat(rdQuiet + d, InactivityTimeout + 1)
    /\ <<rdLast', rdQuiet'>> # <<rdLast, rdQuiet>>
    /\ UNCHANGED <<rdPc, rdErr, rdDone, offRd>>

\* readLoop, lines 164-176 and 206-214: done is not raised and conn.Read
\* returns a datagram
RdDatagram(kind) ==
    /\ rdPc = "run"
    /\ ~rdDone
    /\ rdLast' = Refreshed(kind, rdLast)
    /\ rdQuiet' = 0
    /\ UNCHANGED <<rdPc, rdErr, rdDone, offRd>>

\* readLoop, lines 164-176 and 178-195: conn.Read returns with the 100 ms
\* deadline passed
RdTimeout ==
    /\ rdPc = "run"
    /\ ~rdDone
    /\ IF InactivityTimeout > 0 /\ rdLast > InactivityTimeout
         THEN /\ rdErr' = Posted(rdErr, "inactivity")
              /\ rdPc' = "exited"
         ELSE UNCHANGED <<rdErr, rdPc>>
    /\ UNCHANGED <<rdLast, rdQuiet, rdDone, offRd>>

\* readLoop, lines 196-204: conn.Read returns another error (with done raised:
\* Close has closed the socket under the read)
RdSocketError ==
    /\ rdPc = "run"
    /\ rdErr' = Posted(rdErr, "socket")
    /\ rdPc' = "exited"
    /\ UNCHANGED <<rdLast, rdQuiet, rdDone, offRd>>

\* Session.Close, sol.go lines 196-205: close(s.done)
RdClose ==
    /\ ~rdDone
    /\ rdDone' = TRUE
    /\ UNCHANGED <<rdPc, rdLast, rdQuiet, rdErr, offRd>>

\* readLoop, lines 164-168: case <-s.done at the head of the loop
RdSeeDone ==
    /\ rdPc = "run"
    /\ rdDone
    /\ rdPc' = "exited"
    /\ UNCHANGED <<rdLast, rdQuiet, rdErr, rdDone, offRd>>

(***************************************************************************)
(* The transmit side of one connected transport (go-sol): Session.Write,   *)
(* writeLoop / sendSolData, sendSolAck, keepaliveLoop and Session.Close.   *)
(* A packet on the wire is [kind, pseq, sseq, w]: pseq is the SOL packet   *)
(* sequence number (-1 for an IPMI command), sseq the session sequence     *)
(* number of the RMCP+ session header, w the Write call it carries.        *)
(***************************************************************************)
\* the tasks that send IPMI commands inside the session: the keepalive pump
\* and the callers of Close
Closers == 1..MaxClosers

AuthSenders == {0} \cup Closers

KeepalivePump == 0

\* ActivatePayload answers: what activateSOL leaves in s.maxOutbound
\* (lines 104-109: 0 and values above 255 become 200)
MaxOutbounds == {MinOutbound, MinOutbound + 1, MinOutbound + 2}

\* sendSolData, lines 297-301: maxData := int(s.maxOutbound) - 4, 200 when
\* that is below 1
ChunkSize(mo) == IF mo - 4 < 1 THEN 200 ELSE mo - 4

\* the 8-bit increment without the step over 0
PlainSucc(n) == (n + 1) % 256

\* sendSolData, lines 281-284 and 324-328: x++ on a uint8, and 1 when that
\* gave 0, for s.solSeqNum and for header.PacketSeq alike
NextSolSeq(n) == IF (n + 1) % 256 = 0 THEN 1 ELSE (n + 1) % 256

\* a sender of IPMI commands that is not sending
Resting == [pc |-> "idle", v |-> 0, cmd |-> "none"]

\* the session after Connect has returned nil: the last packet sent was
\* ActivatePayload, the third authenticated command of the session; alg is
\* the integrity algorithm negotiated, mo what activateSOL left in
\* s.maxOutbound, seq what s.solSeqNum is (1 after activateSOL, line 113,
\* more after writes)
TxStart(alg, mo, seq) ==
    /\ integrityAlg = alg
    /\ maxOutbound = mo
    /\ solSeqNum = seq
    /\ sessionSeq = 3
    /\ closed = FALSE
    /\ doneN = 0
    /\ connOpen = TRUE
    /\ writeCh = <<>>
    /\ wcall = [pc |-> "idle", id |-> 0, n |-> 0]
    /\ nextW = 1
    /\ wret = [w \in 1..MaxWrites |-> "none"]
    /\ wfail = [w \in 1..MaxWrites |-> FALSE]
    /\ wl = [pc |-> "idle", id |-> 0, left |-> 0, hdr |-> 0]
    /\ pkt = [kind |-> "activate", pseq |-> -1, sseq |-> 3, w |-> 0]
    /\ nPkts = 0
    /\ lastData = -1
    /\ prevData = -1
    /\ au = [t \in AuthSenders |-> Resting]
    /\ nKa = 0
    /\ nAcks = 0
    /\ sent = [deactivate |-> 0, closeSession |-> 0]
    /\ txFaults = MaxTxFaults

\* just after Connect
TxInit == TxStart("hmac_sha1_96", MinOutbound, 1)

\* the same for a session that has written before (solSeqNum is what those
\* writes left), with every ActivatePayload answer and with and without an
\* integrity algorithm
TxInitAny ==
    \E alg \in {"none", "hmac_sha1_96"}, mo \in MaxOutbounds, seq \in {1, 255} :
        TxStart(alg, mo, seq)

\* conn.Write of one packet: it is on the wire
OnWire(p) ==
    /\ pkt' = p
    /\ nPkts' = nPkts + 1
    /\ IF p.kind = "data"
         THEN lastData' = p.pseq /\ prevData' = lastData
         ELSE UNCHANGED <<lastData, prevData>>

\* ---- Session.Write (sol.go lines 179-193) ----
\* lines 180-185: the closed flag is looked at under the mutex
WriteCall(n) ==
    /\ wcall.pc = "idle"
    /\ nextW <= MaxWrites
    /\ nextW' = nextW + 1
    /\ IF closed
         THEN /\ wret' = [wret EXCEPT ![nextW] = "session closed"]
              /\ UNCHANGED wcall
         ELSE /\ wcall' = [pc |-> "select", id |-> nextW, n |-> n]
              /\ UNCHANGED wret
    /\ UNCHANGED <<integrityAlg, maxOutbound, solSeqNum, sessionSeq, closed, doneN,
                   connOpen, writeCh, wfail, wl, pkt, nPkts, lastData, prevData,
                   au, nKa, nAcks, sent, txFaults, offTx>>

\* lines 187-189: case s.writeCh <- data: return nil
WriteQueued ==
    /\ wcall.pc = "select"
    /\ Len(writeCh) < WriteChCap
    /\ writeCh' = Append(writeCh, [id |-> wcall.id, n |-> wcall.n])
    /\ wret' = [wret EXCEPT ![wcall.id] = "nil"]
    /\ wcall' = [pc |-> "idle", id |-> 0, n |-> 0]
    /\ UNCHANGED <<integrityAlg, maxOutbound, solSeqNum, sessionSeq, closed, doneN,
                   connOpen, nextW, wfail, wl, pkt, nPkts, lastData, prevData,
                   au, nKa, nAcks, sent, txFaults, offTx>>

\* lines 190-192: case <-s.done: return errors.New("session closed")
WriteSeesDone ==
    /\ wcall.pc = "select"
    /\ doneN > 0
    /\ wret' = [wret EXCEPT ![wcall.id] = "session closed"]
    /\ wcall' = [pc |-> "idle", id |-> 0, n |-> 0]
    /\ UNCHANGED <<integrityAlg, maxOutbound, solSeqNum, sessionSeq, closed, doneN,
                   connOpen, writeCh, nextW, wfail, wl, pkt, nPkts, lastData,
                   prevData, au, nKa, nAcks, sent, txFaults, offTx>>

\* ---- writeLoop (payload.go lines 266-275) and sendSolData (278-330) ----
\* case data := <-s.writeCh, then sendSolData up to its loop: the sequence
\* number is taken and s.solSeqNum stepped once for the whole write; a write
\* of no bytes sends nothing and returns nil
WlTake ==
    /\ wl.pc = "idle"
    /\ writeCh # <<>>
    /\ writeCh' = Tail(writeCh)
    /\ solSeqNum' = NextSolSeq(solSeqNum)
    /\ wl' = IF Head(writeCh).n = 0
               THEN [pc |-> "idle", id |-> 0, left |-> 0, hdr |-> 0]
               ELSE [pc |-> "loop", id |-> Head(writeCh).id,
                     left |-> Head(writeCh).n, hdr |-> solSeqNum]
    /\ UNCHANGED <<integrityAlg, maxOutbound, sessionSeq, closed, doneN, connOpen,
                   wcall, nextW, wret, wfail, pkt, nPkts, lastData, prevData,
                   au, nKa, nAcks, sent, txFaults, offTx>>

\* lines 303-328: one turn of the loop whose conn.Write succeeds; the packet
\* is built by buildSolPacket, whose session header has Sequence: 0
WlChunk ==
    /\ wl.pc = "loop"
    /\ connOpen
    /\ LET size == IF wl.left > ChunkSize(maxOutbound)
                     THEN ChunkSize(maxOutbound) ELSE wl.left
       IN  /\ OnWire([kind |-> "data", pseq |-> wl.hdr, sseq |-> 0, w |-> wl.id])
           /\ wl' = IF wl.left - size = 0
                      THEN [pc |-> "idle", id |-> 0, left |-> 0, hdr |-> 0]
                      ELSE [wl EXCEPT !.left = wl.left - size,
                                      !.hdr = NextSolSeq(wl.hdr)]
    /\ UNCHANGED <<integrityAlg, maxOutbound, solSeqNum, sessionSeq, closed, doneN,
                   connOpen, writeCh, wcall, nextW, wret, wfail, au, nKa, nAcks,
                   sent, txFaults, offTx>>

\* lines 318-321: conn.Write fails and sendSolData returns the error;
\* writeLoop (line 272) calls s.sendSolData(data) and drops what it returns
WlChunkFail ==
    /\ wl.pc = "loop"
    /\ \/ ~connOpen /\ UNCHANGED txFaults
       \/ connOpen /\ txFaults > 0 /\ txFaults' = txFaults - 1
    /\ wfail' = [wfail EXCEPT ![wl.id] = TRUE]
    /\ wl' = [pc |-> "idle", id |-> 0, left |-> 0, hdr |-> 0]
    /\ UNCHANGED <<integrityAlg, maxOutbound, solSeqNum, sessionSeq, closed, doneN,
                   connOpen, writeCh, wcall, nextW, wret, pkt, nPkts, lastData,
                   prevData, au, nKa, nAcks, sent, offTx>>

\* writeLoop, lines 269-270: case <-s.done: return
WlExit ==
    /\ wl.pc = "idle"
    /\ doneN > 0
    /\ wl' = [wl EXCEPT !.pc = "exited"]
    /\ UNCHANGED <<integrityAlg, maxOutbound, solSeqNum, sessionSeq, closed, doneN,
                   connOpen, writeCh, wcall, nextW, wret, wfail, pkt, nPkts,
                   lastData, prevData, au, nKa, nAcks, sent, txFaults, offTx>>

\* ---- sendSolAck (payload.go lines 333-351), called by readLoop ----
SendAck ==
    /\ nAcks < MaxAcks
    /\ connOpen
    /\ nAcks' = nAcks + 1
    /\ OnWire([kind |-> "ack", pseq |-> 0, sseq |-> 0, w |-> 0])
    /\ UNCHANGED <<integrityAlg, maxOutbound, solSeqNum, sessionSeq, closed, doneN,
                   connOpen, writeCh, wcall, nextW, wret, wfail, wl, au, nKa,
                   sent, txFaults, offTx>>

\* ---- authenticated IPMI commands: buildAuthenticatedPacket ----
\* (go-sol/README.md lines 406-432; s.sessionSeq++ is a load and a store
\* with no lock held, and the packet is built from a later load). The load
\* is taken by the step that enters the function, the store is AuthStore.
AuthStore(t) ==
    /\ au[t].pc = "store"
    /\ sessionSeq' = au[t].v + 1
    /\ au' = [au EXCEPT ![t].pc = "send"]
    /\ UNCHANGED <<integrityAlg, maxOutbound, solSeqNum, closed, doneN, connOpen,
                   writeCh, wcall, nextW, wret, wfail, wl, pkt, nPkts, lastData,
                   prevData, nKa, nAcks, sent, txFaults, offTx>>

\* buildRMCPPacket(..., s.sessionSeq, payload) and conn.Write: by
\* sendSessionKeepalive (payload.go lines 378-385, the error is dropped) or
\* by sendRecv (README.md lines 435-452), which then waits for the answer
AuthSend(t) ==
    /\ au[t].pc = "send"
    /\ IF connOpen
         THEN /\ OnWire([kind |-> au[t].cmd, pseq |-> -1, sseq |-> sessionSeq, w |-> 0])
              /\ sent' = IF au[t].cmd = "keepalive" THEN sent
                         ELSE [sent EXCEPT ![au[t].cmd] = @ + 1]
         ELSE UNCHANGED <<pkt, nPkts, lastData, prevData, sent>>
    /\ au' = [au EXCEPT ![t].pc = IF au[t].cmd = "keepalive" THEN "idle" ELSE "wait"]
    /\ UNCHANGED <<integrityAlg, maxOutbound, solSeqNum, sessionSeq, closed, doneN,
                   connOpen, writeCh, wcall, nextW, wret, wfail, wl, nKa, nAcks,
                   txFaults, offTx>>

\* sendRecv, lines 445-449: conn.Read returns, with the BMC's answer or with
\* the 2 s deadline passed; deactivateSOL and closeSession return and Close
\* (sol.go lines 209-215) goes on whatever they returned
AuthWaitEnd(c) ==
    /\ au[c].pc = "wait"
    /\ au' = IF au[c].cmd = "deactivate"
               THEN [au EXCEPT ![c].pc = "store", ![c].cmd = "closeSession",
                                ![c].v = sessionSeq]
               ELSE [au EXCEPT ![c].pc = "shut"]
    /\ UNCHANGED <<integrityAlg, maxOutbound, solSeqNum, sessionSeq, closed, doneN,
                   connOpen, writeCh, wcall, nextW, wret, wfail, wl, pkt, nPkts,
                   lastData, prevData, nKa, nAcks, sent, txFaults, offTx>>

\* ---- keepaliveLoop (payload.go lines 357-376) ----
\* case <-ticker.C: s.sendSessionKeepalive()
KaTick ==
    /\ au[KeepalivePump].pc = "idle"
    /\ nKa < MaxKeepalives
    /\ nKa' = nKa + 1
    /\ au' = [au EXCEPT ![KeepalivePump].pc = "store", ![KeepalivePump].cmd = "keepalive",
                       ![KeepalivePump].v = sessionSeq]
    /\ UNCHANGED <<integrityAlg, maxOutbound, solSeqNum, sessionSeq, closed, doneN,
                   connOpen, writeCh, wcall, nextW, wret, wfail, wl, pkt, nPkts,
                   lastData, prevData, nAcks, sent, txFaults, offTx>>

\* case <-s.done: return
KaExit ==
    /\ au[KeepalivePump].pc = "idle"
    /\ doneN > 0
    /\ au' = [au EXCEPT ![KeepalivePump].pc = "exited"]
    /\ UNCHANGED <<integrityAlg, maxOutbound, solSeqNum, sessionSeq, closed, doneN,
                   connOpen, writeCh, wcall, nextW, wret, wfail, wl, pkt, nPkts,
                   lastData, prevData, nKa, nAcks, sent, txFaults, offTx>>

\* ---- Session.Close (sol.go lines 196-216) ----
\* a Close that never finds the session closed
NeverClosed(flag) == FALSE

\* line 198: if s.closed
AlreadyClosed(flag) == flag

\* lines 197-203: under the mutex, return nil when closed is set, else set it
ClCall(c) ==
    /\ au[c].pc = "idle"
    /\ IF AlreadyClosed(closed)
         THEN /\ au' = [au EXCEPT ![c].pc = "returned"]
              /\ UNCHANGED closed
         ELSE /\ au' = [au EXCEPT ![c].pc = "flagged"]
              /\ closed' = TRUE
    /\ UNCHANGED <<integrityAlg, maxOutbound, solSeqNum, sessionSeq, doneN, connOpen,
                   writeCh, wcall, nextW, wret, wfail, wl, pkt, nPkts, lastData,
                   prevData, nKa, nAcks, sent, txFaults, offTx>>

\* line 205: close(s.done), then deactivateSOL is entered
ClDone(c) ==
    /\ au[c].pc = "flagged"
    /\ doneN' = doneN + 1
    /\ au' = [au EXCEPT ![c].pc = "store", ![c].cmd = "deactivate", ![c].v = sessionSeq]
    /\ UNCHANGED <<integrityAlg, maxOutbound, solSeqNum, sessionSeq, closed, connOpen,
                   writeCh, wcall, nextW, wret, wfail, wl, pkt, nPkts, lastData,
                   prevData, nKa, nAcks, sent, txFaults, offTx>>

\* line 215: return s.conn.Close()
ClShut(c) ==
    /\ au[c].pc = "shut"
    /\ connOpen' = FALSE
    /\ au' = [au EXCEPT ![c].pc = "returned"]
    /\ UNCHANGED <<integrityAlg, maxOutbound, solSeqNum, sessionSeq, closed, doneN,
                   writeCh, wcall, nextW, wret, wfail, wl, pkt, nPkts, lastData,
                   prevData, nKa, nAcks, sent, txFaults, offTx>>

(***************************************************************************)
(* The receive side of one connected transport: Session.readLoop with its  *)
(* internal queue, the task that drains the queue into readCh, and the     *)
(* receiver of Session.Read() (go-sol/payload.go lines 137-263).           *)
(* A character payload is named by its arrival number.                     *)
(***************************************************************************)
RxInit ==
    /\ rxPc = "top"
    /\ drainPc = "range"
    /\ queue = <<>>
    /\ qClosed = FALSE
    /\ hold = 0
    /\ readCh = <<>>
    /\ readChClosed = FALSE
    /\ acked = <<>>
    /\ got = <<>>
    /\ nextIn = 1
    /\ rxErr = FALSE

\* readLoop, lines 163-172: the select at the head of the loop; with done
\* raised it closes the queue and waits for the drain task, else it goes on
\* to conn.Read
RxTop ==
    /\ rxPc = "top"
    /\ IF doneN > 0
         THEN rxPc' = "closing" /\ qClosed' = TRUE
         ELSE rxPc' = "read" /\ UNCHANGED qClosed
    /\ UNCHANGED <<drainPc, queue, hold, readCh, readChClosed, acked, got, nextIn,
                   rxErr, offRx>>

\* lines 174-176 and 206-257: conn.Read returns a SOL packet with character
\* data; it is acknowledged (sendSolAck) and then queued, or let go when the
\* queue is full (select { case queue <- data: default: })
RxData ==
    /\ rxPc = "read"
    /\ nextIn <= MaxIn
    /\ nextIn' = nextIn + 1
    /\ acked' = Append(acked, nextIn)
    /\ queue' = IF Len(queue) < QueueCap THEN Append(queue, nextIn) ELSE queue
    /\ rxPc' = "top"
    /\ UNCHANGED <<drainPc, qClosed, hold, readCh, readChClosed, got, rxErr, offRx>>

\* lines 177-195 with the session not yet inactive, and lines 211-234: the
\* read deadline passes or a packet without character data arrives
RxNothing ==
    /\ rxPc = "read"
    /\ rxPc' = "top"
    /\ UNCHANGED <<drainPc, queue, qClosed, hold, readCh, readChClosed, acked, got,
                   nextIn, rxErr, offRx>>

\* lines 182-193 and 196-204: the inactivity timeout or a socket error is
\* posted on errCh, the queue is closed and the drain task waited for
RxError ==
    /\ rxPc = "read"
    /\ rxErr' = TRUE
    /\ qClosed' = TRUE
    /\ rxPc' = "closing"
    /\ UNCHANGED <<drainPc, queue, hold, readCh, readChClosed, acked, got, nextIn,
                   offRx>>

\* <-done has returned, readLoop returns and its defer closes readCh (line 138)
RxJoin ==
    /\ rxPc = "closing"
    /\ drainPc = "exited"
    /\ readChClosed' = TRUE
    /\ rxPc' = "exited"
    /\ UNCHANGED <<drainPc, queue, qClosed, hold, readCh, acked, got, nextIn, rxErr,
                   offRx>>

\* the drain task, lines 145-154: for data := range queue
DrainTake ==
    /\ drainPc = "range"
    /\ queue # <<>>
    /\ hold' = Head(queue)
    /\ queue' = Tail(queue)
    /\ drainPc' = "select"
    /\ UNCHANGED <<rxPc, qClosed, readCh, readChClosed, acked, got, nextIn, rxErr,
                   offRx>>

\* the range ends: the queue is closed and empty
DrainEnd ==
    /\ drainPc = "range"
    /\ queue = <<>>
    /\ qClosed
    /\ drainPc' = "exited"
    /\ UNCHANGED <<rxPc, queue, qClosed, hold, readCh, readChClosed, acked, got,
                   nextIn, rxErr, offRx>>

\* case s.readCh <- data
DrainPut ==
    /\ drainPc = "select"
    /\ Len(readCh) < ReadChCap
    /\ readCh' = Append(readCh, hold)
    /\ hold' = 0
    /\ drainPc' = "range"
    /\ UNCHANGED <<rxPc, queue, qClosed, readChClosed, acked, got, nextIn, rxErr,
                   offRx>>

\* case <-s.done: return
DrainSeeDone ==
    /\ drainPc = "select"
    /\ doneN > 0
    /\ hold' = 0
    /\ drainPc' = "exited"
    /\ UNCHANGED <<rxPc, queue, qClosed, readCh, readChClosed, acked, got, nextIn,
                   rxErr, offRx>>

\* the receiver of Session.Read() takes a payload (connectSOL's
\* case data, ok := <-readCh, manager.go lines 409-423)
ReadRecv ==
    /\ readCh # <<>>
    /\ got' = Append(got, Head(readCh))
    /\ readCh' = Tail(readCh)
    /\ UNCHANGED <<rxPc, drainPc, queue, qClosed, hold, readChClosed, acked, nextIn,
                   rxErr, offRx>>

(***************************************************************************)
(* Session.Connect (go-sol/sol.go lines 99-171) as connectSOL calls it     *)
(* (sol/manager.go lines 369-393), one step of the handshake at a time.    *)
(***************************************************************************)
\* the steps whose failure makes Connect give up, in the order of the code
HandshakeOrder == <<"authcaps", "open", "rakp", "priv", "activate">>

\* where Connect goes after the step at pc has succeeded
AfterStep(pc) ==
    CASE pc = "authcaps" -> "open"
      [] pc = "open" -> "rakp"
      [] pc = "rakp" -> "priv"
      [] pc = "priv" -> "deact"

\* the session is marked whatever Connect returned
MarksAlways(ret) == TRUE

\* connectSOL, lines 387-392: if err != nil { return ... }; only then
\* session.Connected = true
Marks(ret) == ret = "nil"

CnInit ==
    /\ cnPc = "idle"
    /\ cnSteps = <<>>
    /\ cnConn = "none"
    /\ cnPumps = {}
    /\ cnRet = "none"
    /\ cnFailedAt = "none"
    /\ cnMarked = FALSE
    /\ cnLastError = ""
    /\ cnTry = 0

\* connectSOL, lines 370-385: sol.New and the call of Connect
CnNew ==
    /\ cnPc = "idle"
    /\ cnTry < MaxConnects
    /\ cnTry' = cnTry + 1
    /\ cnPc' = "dial"
    /\ cnSteps' = <<>>
    /\ cnConn' = "none"
    /\ cnPumps' = {}
    /\ cnRet' = "none"
    /\ cnFailedAt' = "none"
    /\ UNCHANGED <<cnMarked, cnLastError, offCn>>

\* Connect gives up: the callers' s.conn.Close() and return fmt.Errorf(...)
GiveUp(step) ==
    /\ cnConn' = "closed"
    /\ cnRet' = "error"
    /\ cnFailedAt' = step
    /\ cnPc' = "returned"
    /\ UNCHANGED <<cnSteps, cnPumps>>

\* lines 102-106: net.DialTimeout; no socket exists when it fails
CnDial(ok) ==
    /\ cnPc = "dial"
    /\ IF ok
         THEN /\ cnConn' = "open"
              /\ cnPc' = "authcaps"
              /\ UNCHANGED <<cnRet, cnFailedAt>>
         ELSE /\ cnRet' = "error"
              /\ cnFailedAt' = "dial"
              /\ cnPc' = "returned"
              /\ UNCHANGED cnConn
    /\ UNCHANGED <<cnSteps, cnPumps, cnMarked, cnTry, cnLastError, offCn>>

\* lines 108-135: getChannelAuthCaps, openSession, rakpHandshake and
\* setSessionPrivilege
CnHandshake(ok) ==
    /\ cnPc \in {"authcaps", "open", "rakp", "priv"}
    /\ IF ok
         THEN /\ cnSteps' = Append(cnSteps, cnPc)
              /\ cnPc' = AfterStep(cnPc)
              /\ UNCHANGED <<cnConn, cnRet, cnFailedAt, cnPumps>>
         ELSE GiveUp(cnPc)
    /\ UNCHANGED <<cnMarked, cnTry, cnLastError, offCn>>

\* lines 137-139: s.deactivateSOL(ctx), whatever it returns, and the sleep
CnDeactivate ==
    /\ cnPc = "deact"
    /\ cnPc' = "activate1"
    /\ UNCHANGED <<cnSteps, cnConn, cnPumps, cnRet, cnFailedAt, cnMarked, cnTry, cnLastError, offCn>>

\* lines 141-160: activateSOL; after an error that names 0x80 the payload is
\* deactivated and activateSOL tried again, after any error of that second
\* try SOL is disabled and enabled and activateSOL tried a last time
CnActivate(res) ==
    /\ cnPc \in {"activate1", "activate2", "activate3"}
    /\ CASE res = "ok" ->
              /\ cnSteps' = Append(cnSteps, "activate")
              /\ cnPc' = "start"
              /\ UNCHANGED <<cnConn, cnRet, cnFailedAt, cnPumps>>
         [] res # "ok" /\ cnPc = "activate1" /\ res = "busy" ->
              /\ cnPc' = "activate2"
              /\ UNCHANGED <<cnSteps, cnConn, cnRet, cnFailedAt, cnPumps>>
         [] res # "ok" /\ cnPc = "activate2" ->
              /\ cnPc' = "activate3"
              /\ UNCHANGED <<cnSteps, cnConn, cnRet, cnFailedAt, cnPumps>>
         [] OTHER -> GiveUp("activate")
    /\ UNCHANGED <<cnMarked, cnTry, cnLastError, offCn>>

\* lines 162-170: the pumps are started and Connect returns nil
\* (connectSOL gives an inactivity timeout, so the keepalive pump is one)
CnStart ==
    /\ cnPc = "start"
    /\ cnPumps' = {"read", "write", "keepalive"}
    /\ cnRet' = "nil"
    /\ cnPc' = "returned"
    /\ UNCHANGED <<cnSteps, cnConn, cnFailedAt, cnMarked, cnTry, cnLastError, offCn>>

\* connectSOL, lines 387-393, after Connect has returned nil
SupMark ==
    /\ cnPc = "returned"
    /\ ~cnMarked
    /\ Marks(cnRet)
    /\ cnMarked' = TRUE
    /\ cnLastError' = ""
    /\ UNCHANGED <<cnPc, cnSteps, cnConn, cnPumps, cnRet, cnFailedAt, cnTry, offCn>>

\* connectSOL returns the error and runSession goes round again (manager.go
\* lines 284-288: session.Connected = false, session.LastError = err.Error())
SupFail ==
    /\ cnPc = "returned"
    /\ cnRet = "error"
    /\ cnMarked' = FALSE
    /\ cnLastError' = cnFailedAt
    /\ cnPc' = "idle"
    /\ UNCHANGED <<cnSteps, cnConn, cnPumps, cnRet, cnFailedAt, cnTry, offCn>>

\* the connection ends (connectSOL, lines 409-428: solSession.Close() or the
\* closed readCh, session.Connected = false) and runSession goes round again
SupSessionEnds ==
    /\ cnPc = "returned"
    /\ cnRet = "nil"
    /\ cnMarked
    /\ cnMarked' = FALSE
    /\ cnPumps' = {}
    /\ cnConn' = "closed"
    /\ cnRet' = "none"
    /\ cnLastError' = "session"
    /\ cnPc' = "idle"
    /\ UNCHANGED <<cnSteps, cnFailedAt, cnTry, offCn>>

(***************************************************************************)
(* ScreenBuffer (sol/screenbuf.go): a rolling buffer of the last bytes of  *)
(* the console. sbAll is what has been written since NewScreenBuffer or    *)
(* the last Reset, sbOut what the last call of Bytes returned and what had *)
(* been written by then.                                                   *)
(***************************************************************************)
ByteVals == {0, 1}

\* the arguments of Write: every byte sequence of up to MaxChunkLen bytes
Chunks == UNION {[1..n -> ByteVals] : n \in 0..MaxChunkLen}

\* a Write that keeps the oldest bytes
KeepHead(d, excess) == d

\* line 29: copy(sb.data, sb.data[excess:]) moves the bytes after the first
\* excess ones to the front and leaves the length as it is
CopyDown(d, excess) ==
    [i \in 1..Len(d) |-> IF i <= Len(d) - excess THEN d[i + excess] ELSE d[i]]

\* lines 26-31
Written(d, p, max) ==
    IF Len(d \o p) > max
      THEN SubSeq(CopyDown(d \o p, Len(d \o p) - max), 1, max)
      ELSE d \o p

\* NewScreenBuffer, lines 16-21
SbInit ==
    /\ sbData = <<>>
    /\ sbAll = <<>>
    /\ sbOut = [bytes |-> <<>>, of |-> <<>>]

\* ScreenBuffer.Write, lines 23-32
SbWrite(p) ==
    /\ Len(sbAll) + Len(p) <= MaxTotal
    /\ sbData' = Written(sbData, p, SbCap)
    /\ sbAll' = sbAll \o p
    /\ UNCHANGED <<sbOut, offSb>>

\* ScreenBuffer.Bytes, lines 34-40: a copy of sb.data
SbBytes ==
    /\ sbOut' = [bytes |-> [i \in 1..Len(sbData) |-> sbData[i]], of |-> sbAll]
    /\ UNCHANGED <<sbData, sbAll, offSb>>

\* ScreenBuffer.Reset, lines 42-46
SbReset ==
    /\ sbData' = SubSeq(sbData, 1, 0)
    /\ sbAll' = <<>>
    /\ UNCHANGED <<sbOut, offSb>>

(***************************************************************************)
(* The inventory scanner (discovery/scanner.go): the watch stream, the     *)
(* list reconcile fetchBMH, the cache file and the OnChange handler that   *)
(* starts sessions (main.go lines 80-98).                                  *)
(***************************************************************************)
ScNames == {"bmh1", "bmh2"}

\* the BMH objects the inventory sends for a name: BMC address, boot MAC,
\* user and secret; empty fields are left out by the inventory
ScObjects ==
    { [addr |-> "",    mac |-> "m1", user |-> "u1", pass |-> "p1"],
      [addr |-> "ip1", mac |-> "",   user |-> "",   pass |-> ""],
      [addr |-> "ip1", mac |-> "m1", user |-> "u1", pass |-> "p1"],
      [addr |-> "ip2", mac |-> "m1", user |-> "u2", pass |-> "p1"] }

\* no entry in s.servers
ScAbsent == [known |-> FALSE, ip |-> "", online |-> FALSE, mac |-> "", user |-> "",
             pass |-> ""]

\* applyBMH, lines 284-329: the entry of the object's name afterwards
ScApplied(old, o) ==
    IF o.addr = "" THEN old
    ELSE IF old.known
      THEN [old EXCEPT !.ip = o.addr, !.online = TRUE,
                       !.mac = IF o.mac # "" THEN o.mac ELSE @,
                       !.user = IF o.user # "" THEN o.user ELSE @,
                       !.pass = IF o.pass # "" THEN o.pass ELSE @]
      ELSE [known |-> TRUE, ip |-> o.addr, online |-> TRUE, mac |-> o.mac,
            user |-> o.user, pass |-> o.pass]

\* a DELETED event that takes the entry out of the map
Forgotten(old) == ScAbsent

\* watchBMH, lines 265-269: case "DELETED" only logs
AfterDeleted(old) == old

\* the names in s.servers
ScKnown(m) == {n \in ScNames : m[n].known}

\* the lists fetchBMH can decode: some names, one object each
ScLists == UNION {[S -> ScObjects] : S \in SUBSET ScNames}

\* fetchBMH, lines 208-215: every item of the list is applied; nothing else
\* is done to the map
Reconciled(m, list) ==
    [n \in ScNames |-> IF n \in DOMAIN list THEN ScApplied(m[n], list[n]) ELSE m[n]]

\* NewScanner, lines 64-72, with no cache file on disk
ScInit ==
    /\ scServers = [n \in ScNames |-> ScAbsent]
    /\ cacheFile = [exists |-> FALSE, servers |-> [n \in ScNames |-> ScAbsent]]
    /\ scSaves = 0
    /\ scNotes = 0
    /\ scPending = <<>>
    /\ scRunning = {}
    /\ scEv = [type |-> "none", names |-> {}]
    /\ nEv = 0

\* lines 217-222 and 273-278: after a change the cache is saved (Cache.Save
\* may fail and then leaves the file as it was) and the handler is run as a
\* new task with the names of GetServers()
AfterChange(changed, saved) ==
    IF changed
      THEN /\ cacheFile' = IF saved THEN [exists |-> TRUE, servers |-> scServers']
                                 ELSE cacheFile
           /\ scSaves' = scSaves + 1
           /\ scNotes' = scNotes + 1
           /\ scPending' = Append(scPending, ScKnown(scServers'))
      ELSE UNCHANGED <<cacheFile, scSaves, scNotes, scPending>>

\* watchBMH, lines 248-279: one event of the watch stream
ScWatch(type, n, o, saved) ==
    /\ nEv < MaxEvents
    /\ nEv' = nEv + 1
    /\ scEv' = [type |-> type, names |-> {n}]
    /\ scServers' = [scServers EXCEPT ![n] =
                       IF type = "DELETED" THEN AfterDeleted(@) ELSE ScApplied(@, o)]
    /\ AfterChange(type # "DELETED" /\ scServers' # scServers, saved)
    /\ UNCHANGED <<scRunning, offSc>>

\* fetchBMH, lines 179-223, with a list decoded (from Run, from the watch
\* loop's reconnect or from Refresh, lines 119-121)
ScFetch(list, saved) ==
    /\ nEv < MaxEvents
    /\ nEv' = nEv + 1
    /\ scEv' = [type |-> "LIST", names |-> DOMAIN list]
    /\ scServers' = Reconciled(scServers, list)
    /\ AfterChange(scServers' # scServers, saved)
    /\ UNCHANGED <<scRunning, offSc>>

\* fetchBMH, lines 188-204: the request or the decoding fails
ScFetchFail ==
    /\ nEv < MaxEvents
    /\ nEv' = nEv + 1
    /\ scEv' = [type |-> "LISTFAIL", names |-> {}]
    /\ UNCHANGED <<scServers, cacheFile, scSaves, scNotes, scPending, scRunning, offSc>>

\* the OnChange handler, main.go lines 80-98: a session is started for every
\* name that has none; no entry is ever offline (applyBMH stores Online =
\* true only), so none is stopped
ScHandle ==
    /\ scPending # <<>>
    /\ scRunning' = scRunning \cup {n \in Head(scPending) : scServers[n].online}
    /\ scPending' = Tail(scPending)
    /\ UNCHANGED <<scServers, cacheFile, scSaves, scNotes, scEv, nEv, offSc>>

(***************************************************************************)
(* The two state files: bmh-cache.json written by Cache.Save               *)
(* (discovery/cache.go lines 49-79) and analytics.json written by          *)
(* Analytics.save (logs/writer.go lines 1096-1121). A file is [ver, bytes]:*)
(* ver the save that wrote it (0 = never), bytes "gone" (no such file),    *)
(* "nil" (empty), "some" (part of the contents) or "all".                  *)
(***************************************************************************)
NoFile == [ver |-> 0, bytes |-> "gone"]

\* os.WriteFile opens with O_CREATE|O_TRUNC: the file is there and empty
Opened(v) == [ver |-> v, bytes |-> "nil"]

\* the next write of os.WriteFile's loop: part of the bytes, then the rest
MoreWritten(f) == [f EXCEPT !.bytes = IF @ = "nil" THEN "some" ELSE "all"]

FsInit ==
    /\ cPath = NoFile
    /\ cTmp = NoFile
    /\ aPath = NoFile
    /\ csPc = "idle"
    /\ csVer = 0
    /\ anPc = "idle"
    /\ anVer = 0
    /\ crashed = FALSE

\* Cache.Save, lines 50-65: the map is marshalled and the directory made
CsBegin ==
    /\ ~crashed
    /\ csPc = "idle"
    /\ csVer < MaxSaves
    /\ csVer' = csVer + 1
    /\ csPc' = "open"
    /\ UNCHANGED <<cPath, cTmp, aPath, anPc, anVer, crashed, offFs>>

\* lines 66-67: os.WriteFile(tmp, ...) opens the temporary file
CsOpen ==
    /\ ~crashed
    /\ csPc = "open"
    /\ cTmp' = Opened(csVer)
    /\ csPc' = "write"
    /\ UNCHANGED <<cPath, aPath, csVer, anPc, anVer, crashed, offFs>>

\* line 67: os.WriteFile writes
CsWrite ==
    /\ ~crashed
    /\ csPc = "write"
    /\ cTmp' = MoreWritten(cTmp)
    /\ csPc' = IF cTmp'.bytes = "all" THEN "rename" ELSE "write"
    /\ UNCHANGED <<cPath, aPath, csVer, anPc, anVer, crashed, offFs>>

\* lines 67-70: os.WriteFile fails and Save returns
CsWriteFail ==
    /\ ~crashed
    /\ csPc = "write"
    /\ csPc' = "idle"
    /\ UNCHANGED <<cPath, cTmp, aPath, csVer, anPc, anVer, crashed, offFs>>

\* lines 72-76: os.Rename(tmp, c.path); when it fails the temporary file is
\* removed
CsRename(ok) ==
    /\ ~crashed
    /\ csPc = "rename"
    /\ cPath' = IF ok THEN cTmp ELSE cPath
    /\ cTmp' = NoFile
    /\ csPc' = "idle"
    /\ UNCHANGED <<aPath, csVer, anPc, anVer, crashed, offFs>>

\* Analytics.save, lines 1097-1115: the data is marshalled and the directory
\* made
AnBegin ==
    /\ ~crashed
    /\ anPc = "idle"
    /\ anVer < MaxSaves
    /\ anVer' = anVer + 1
    /\ anPc' = "open"
    /\ UNCHANGED <<cPath, cTmp, aPath, csPc, csVer, crashed, offFs>>

\* line 1117: os.WriteFile(a.getFilePath(), ...) opens analytics.json itself
AnOpen ==
    /\ ~crashed
    /\ anPc = "open"
    /\ aPath' = Opened(anVer)
    /\ anPc' = "write"
    /\ UNCHANGED <<cPath, cTmp, csPc, csVer, anVer, crashed, offFs>>

\* line 1117: os.WriteFile writes
AnWrite ==
    /\ ~crashed
    /\ anPc = "write"
    /\ aPath' = MoreWritten(aPath)
    /\ anPc' = IF aPath'.bytes = "all" THEN "idle" ELSE "write"
    /\ UNCHANGED <<cPath, cTmp, csPc, csVer, anVer, crashed, offFs>>

\* lines 1117-1119: os.WriteFile fails, which is logged
AnWriteFail ==
    /\ ~crashed
    /\ anPc = "write"
    /\ anPc' = "idle"
    /\ UNCHANGED <<cPath, cTmp, aPath, csPc, csVer, anVer, crashed, offFs>>

\* the process is killed
Crash ==
    /\ ~crashed
    /\ crashed' = TRUE
    /\ UNCHANGED <<cPath, cTmp, aPath, csPc, csVer, anPc, anVer, offFs>>


\* ---------------------------------------------------------------------
\* Log writer: the cleaning and de-duplication pipeline of Writer.Write
\* (logs/writer.go).  Bytes are one-character strings; a chunk is a
\* sequence of bytes.
\* ---------------------------------------------------------------------
ESC == "ESC"
LF == "LF"
CR == "CR"
TAB == "TAB"
BEL == "BEL"

Letters == {"a", "b", "H", "f", "m", "A", "B", "D", "M", "E", "c"}
Digits == {"0", "1", "2", "7", "8"}
Punct == {"[", "]", ";", "?", "=", ">", "(", ")", " ", ".", "/", "-", "\\", "|"}

\* c >= 32 && c < 127
Printable == Letters \cup Digits \cup Punct

DigitVal(c) == CASE c = "0" -> 0 [] c = "1" -> 1 [] c = "2" -> 2 [] c = "7" -> 7 [] c = "8" -> 8

RECURSIVE RunLen(_, _, _)
\* how many bytes of s, from position i on, lie in class
RunLen(s, i, class) ==
    IF i <= Len(s) /\ s[i] \in class THEN 1 + RunLen(s, i + 1, class) ELSE 0

RECURSIVE IndexFrom(_, _, _)
\* first position >= i of byte c in s, 0 when there is none
IndexFrom(s, i, c) ==
    IF i > Len(s) THEN 0 ELSE IF s[i] = c THEN i ELSE IndexFrom(s, i + 1, c)

RECURSIVE LastIndexByte(_, _)
\* bytes.LastIndexByte, positions from 1, 0 when there is none
LastIndexByte(s, c) ==
    IF s = <<>> THEN 0
    ELSE IF s[Len(s)] = c THEN Len(s)
    ELSE LastIndexByte(SubSeq(s, 1, Len(s) - 1), c)

RECURSIVE TrimRight(_, _)
TrimRight(s, cutset) ==
    IF s # <<>> /\ s[Len(s)] \in cutset THEN TrimRight(SubSeq(s, 1, Len(s) - 1), cutset) ELSE s

RECURSIVE TrimLeft(_, _)
TrimLeft(s, cutset) ==
    IF s # <<>> /\ s[1] \in cutset THEN TrimLeft(Tail(s), cutset) ELSE s

RECURSIVE SplitLF(_)
\* bytes.Split(s, "\n"): always at least one piece
SplitLF(s) ==
    LET i == IndexFrom(s, 1, LF) IN
    IF i = 0 THEN <<s>>
    ELSE <<SubSeq(s, 1, i - 1)>> \o SplitLF(SubSeq(s, i + 1, Len(s)))

RECURSIVE JoinLF(_)
JoinLF(ls) ==
    IF Len(ls) = 0 THEN <<>>
    ELSE IF Len(ls) = 1 THEN ls[1]
    ELSE ls[1] \o <<LF>> \o JoinLF(Tail(ls))

\* cursorPosRegex: ESC [ digits ; digits* (H|f)  |  ESC [ digits (H|f).
\* Length of the match that starts at i, 0 when there is none.
CursorLen(s, i) ==
    IF i + 1 <= Len(s) /\ s[i] = ESC /\ s[i + 1] = "[" THEN
        LET d1 == RunLen(s, i + 2, Digits)
            j == i + 2 + d1
        IN  IF d1 = 0 \/ j > Len(s) THEN 0
            ELSE IF s[j] = ";" THEN
                LET d2 == RunLen(s, j + 1, Digits)
                    k == j + 1 + d2
                IN  IF k <= Len(s) /\ s[k] \in {"H", "f"} THEN k - i + 1 ELSE 0
            ELSE IF s[j] \in {"H", "f"} THEN j - i + 1
            ELSE 0
    ELSE 0

RECURSIVE ColOf(_, _)
\* the column parsed from the digits between ';' and the final letter
ColOf(ds, col) ==
    IF ds = <<>> THEN col
    ELSE ColOf(Tail(ds), IF Head(ds) \in Digits THEN col * 10 + DigitVal(Head(ds)) ELSE col)

CursorRepl(match) ==
    LET semi == IndexFrom(match, 1, ";") IN
    IF semi = 0 THEN <<LF>>
    ELSE IF ColOf(SubSeq(match, semi + 1, Len(match) - 1), 0) <= 1 THEN <<LF>>
    ELSE <<>>

RECURSIVE cleanCursorPositions(_)
cleanCursorPositions(data) ==
    IF data = <<>> THEN <<>>
    ELSE LET n == CursorLen(data, 1) IN
         IF n > 0 THEN CursorRepl(SubSeq(data, 1, n)) \o cleanCursorPositions(SubSeq(data, n + 1, Len(data)))
         ELSE <<Head(data)>> \o cleanCursorPositions(Tail(data))

\* ansiRegex, the alternatives in the order of the pattern
AnsiLen(s, i) ==
    IF i + 1 > Len(s) \/ s[i] # ESC THEN 0
    ELSE LET c == s[i + 1] IN
         IF c = "[" THEN
             LET j == i + 2 + RunLen(s, i + 2, Digits \cup {";", "?"}) IN
             IF j <= Len(s) /\ s[j] \in Letters THEN j - i + 1 ELSE 0
         ELSE IF c = "]" THEN
             LET j == IndexFrom(s, i + 2, BEL) IN
             IF j > 0 THEN j - i + 1 ELSE 0
         ELSE IF c \in {"(", ")"} THEN
             IF i + 2 <= Len(s) /\ s[i + 2] \in {"A", "B", "0", "1", "2"} THEN 3 ELSE 0
         ELSE IF c \in {"=", ">", "7", "8", "D", "M", "E", "H", "c"} THEN 2
         ELSE 0

RECURSIVE StripAnsi(_)
StripAnsi(data) ==
    IF data = <<>> THEN <<>>
    ELSE LET n == AnsiLen(data, 1) IN
         IF n > 0 THEN StripAnsi(SubSeq(data, n + 1, Len(data)))
         ELSE <<Head(data)>> \o StripAnsi(Tail(data))

\* orphanedAnsiRegex: [ (=|?)? (digit|;)* letter  |  [ (=|?)? (digit|;)+ end-of-text;
\* with atLine, orphanedAnsiLineRegex: [ (=|?)? (digit|;)+ end-of-line
OrphanLen(s, i, atLine) ==
    IF i > Len(s) \/ s[i] # "[" THEN 0
    ELSE LET j == IF i + 1 <= Len(s) /\ s[i + 1] \in {"=", "?"} THEN i + 2 ELSE i + 1
             r == RunLen(s, j, Digits \cup {";"})
             k == j + r
         IN  IF ~atLine /\ k <= Len(s) /\ s[k] \in Letters THEN k - i + 1
             ELSE IF r > 0 /\ (k > Len(s) \/ (atLine /\ s[k] = LF)) THEN k - i
             ELSE 0

RECURSIVE StripOrphans(_, _)
StripOrphans(data, atLine) ==
    IF data = <<>> THEN <<>>
    ELSE LET n == OrphanLen(data, 1, atLine) IN
         IF n > 0 THEN StripOrphans(SubSeq(data, n + 1, Len(data)), atLine)
         ELSE <<Head(data)>> \o StripOrphans(Tail(data), atLine)

RECURSIVE DropCRLF(_)
\* bytes.ReplaceAll(data, "\r\n", "\n")
DropCRLF(data) ==
    IF data = <<>> THEN <<>>
    ELSE IF Len(data) >= 2 /\ data[1] = CR /\ data[2] = LF THEN <<LF>> \o DropCRLF(SubSeq(data, 3, Len(data)))
    ELSE <<Head(data)>> \o DropCRLF(Tail(data))

\* within a line, what follows the last carriage return replaces what precedes it
Overwrite(data) ==
    IF IndexFrom(data, 1, CR) = 0 THEN data
    ELSE LET crLines == SplitLF(DropCRLF(data)) IN
         JoinLF([i \in 1..Len(crLines) |->
                    SubSeq(crLines[i], LastIndexByte(crLines[i], CR) + 1, Len(crLines[i]))])

KeepPrintable(data) == SelectSeq(data, LAMBDA c : c = LF \/ c = TAB \/ c \in Printable)

TrimLines(data) ==
    LET lines == SplitLF(data) IN
    JoinLF([i \in 1..Len(lines) |-> TrimRight(lines[i], {" ", TAB})])

RECURSIVE Collapse(_, _)
\* replacing "\n\n\n" by "\n\n" until none is left: every run of newlines
\* is cut down to two; nl is the length of the run that ends before data
Collapse(data, nl) ==
    IF data = <<>> THEN <<>>
    ELSE IF Head(data) = LF THEN
         (IF nl >= 2 THEN <<>> ELSE <<LF>>) \o Collapse(Tail(data), nl + 1)
    ELSE <<Head(data)>> \o Collapse(Tail(data), 0)

cleanLogData(data) ==
    Collapse(TrimLines(KeepPrintable(Overwrite(
        StripOrphans(StripOrphans(StripAnsi(cleanCursorPositions(data)), FALSE), TRUE)))), 0)

Ttl == 10

Banner(n) == <<"(Duplicated ", ToString(n), " lines)", LF>>

\* a checkLine that suppresses duplicates without counting them
checkLineUncounted(rl, line0, now) ==
    LET line == TrimRight(line0, {" ", TAB}) IN
    IF line = <<>> THEN [write |-> TRUE, banner |-> <<>>, rl |-> rl]
    ELSE IF line \in DOMAIN rl.lines /\ ~(now - rl.lines[line] > Ttl) THEN
        [write |-> FALSE, banner |-> <<>>, rl |-> rl]
    ELSE [write |-> TRUE, banner |-> <<>>,
          rl |-> [lines |-> [k \in DOMAIN rl.lines \cup {line} |-> IF k = line THEN now ELSE rl.lines[k]],
                  dupCount |-> 0]]

\* recentLines.checkLine: rl is [lines, dupCount], lines maps a line to the
\* time it was last seen
checkLine(rl, line0, now) ==
    LET line == TrimRight(line0, {" ", TAB})
        kept == {k \in DOMAIN rl.lines : ~(now - rl.lines[k] > Ttl)}
        seen == [k \in kept \cup {line} |-> IF k = line THEN now ELSE rl.lines[k]]
    IN  IF line = <<>> THEN [write |-> TRUE, banner |-> <<>>, rl |-> rl]
        ELSE IF line \in kept THEN
            [write |-> FALSE, banner |-> <<>>, rl |-> [lines |-> seen, dupCount |-> rl.dupCount + 1]]
        ELSE [write |-> TRUE,
              banner |-> IF rl.dupCount > 0 THEN Banner(rl.dupCount) ELSE <<>>,
              rl |-> [lines |-> seen, dupCount |-> 0]]

RECURSIVE EachLine(_, _, _, _)
\* the loop of Write over the lines of the cleaned chunk
EachLine(lines, rl, out, now) ==
    IF lines = <<>> THEN [out |-> out, rl |-> rl]
    ELSE LET r == checkLine(rl, Head(lines), now) IN
         EachLine(Tail(lines), r.rl,
                  out \o r.banner \o (IF r.write THEN Head(lines) \o <<LF>> ELSE <<>>), now)

LeadingNL(s) == RunLen(s, 1, {LF})

TrailingNL(s) == Len(s) - Len(TrimRight(s, {LF}))

Spinner == {"/", "-", "\\", "|", "."}

NoLast == [ok |-> FALSE, line |-> <<>>]

\* the state of a writer for one server after NewWriter
FreshWriter ==
    [pending |-> <<>>, lastLine |-> NoLast, trailingNL |-> 0,
     repeats |-> [lines |-> <<>>, dupCount |-> 0]]

\* Writer.Write on the state w of one server, in the order of the code;
\* every stage yields the new state and the bytes appended to the log file.

Nothing(w) == [w |-> w, out |-> <<>>]

\* lines 235-243: the trailing newlines are counted and the bytes written
Appended(w, out) ==
    IF out = <<>> THEN Nothing(w)
    ELSE [w |-> [w EXCEPT !.trailingNL = TrailingNL(out)], out |-> out]

\* lines 225-229: the newline added after the last line is cut when the
\* cleaned bytes did not end with one
Emitted(w, cleaned, r) ==
    Appended([w EXCEPT !.repeats = r.rl],
             IF cleaned[Len(cleaned)] # LF /\ r.out # <<>>
             THEN SubSeq(r.out, 1, Len(r.out) - 1) ELSE r.out)

\* lines 202-224
Deduplicated(w, cleaned, now) ==
    IF cleaned = <<>> THEN Nothing(w)
    ELSE Emitted(w, cleaned, EachLine(SplitLF(cleaned), w.repeats, <<>>, now))

\* lines 186-201: at most two newlines in a row across two writes
Clamped(prevNL, cleaned, leadingNL) ==
    IF prevNL > 0 /\ prevNL + leadingNL > 2
    THEN SubSeq(cleaned, (IF prevNL + leadingNL - 2 > leadingNL THEN leadingNL ELSE prevNL + leadingNL - 2) + 1,
                Len(cleaned))
    ELSE cleaned

Normalized(content) == TrimRight(TrimRight(content, {" ", TAB}), Spinner)

\* lines 173-182: a write of several lines remembers its last line
Tracked(lastLine, last) == IF last # <<>> THEN [ok |-> TRUE, line |-> last] ELSE lastLine

\* lines 165-182, then the rest under the state with lastLine updated
Remembered(w, cleaned, content, now) ==
    IF content # <<>> /\ IndexFrom(content, 1, LF) = 0 THEN
        IF w.lastLine.ok /\ Normalized(content) = w.lastLine.line THEN Nothing(w)
        ELSE Deduplicated([w EXCEPT !.lastLine = [ok |-> TRUE, line |-> Normalized(content)]],
                          Clamped(w.trailingNL, cleaned, LeadingNL(cleaned)), now)
    ELSE Deduplicated(
            [w EXCEPT !.lastLine =
                IF content # <<>>
                THEN Tracked(@, Normalized(SubSeq(content, LastIndexByte(content, LF) + 1, Len(content))))
                ELSE @],
            Clamped(w.trailingNL, cleaned, LeadingNL(cleaned)), now)

\* lines 157-160
Cleaned(w, cleaned, now) ==
    IF cleaned = <<>> THEN Nothing(w)
    ELSE Remembered(w, cleaned, TrimLeft(cleaned, {LF}), now)

\* lines 146-155: an escape sequence that starts in the last five bytes and
\* does not end with a letter is held back; h is where it starts, 0 for none
HeldAt(data, i) ==
    IF i >= 1 /\ i - 1 > Len(data) - 6 /\ data[Len(data)] \notin Letters THEN i ELSE 0

Buffered(w, data, h, now) ==
    Cleaned([w EXCEPT !.pending = IF h > 0 THEN SubSeq(data, h, Len(data)) ELSE <<>>],
            cleanLogData(IF h > 0 THEN SubSeq(data, 1, h - 1) ELSE data), now)

Prepended(w, data, now) == Buffered(w, data, HeldAt(data, LastIndexByte(data, ESC)), now)

Write(w, chunk, now) ==
    Prepended(w, IF Len(w.pending) > 0 THEN w.pending \o chunk ELSE chunk, now)

\* the bytes the console sends in the runs
LwBytes == {"a", "H", "1", "[", ESC, CR, LF}

\* the sequences of up to n elements of S
SeqsUpTo(S, n) == UNION {[1..k -> S] : k \in 0..n}

LwChunks == SeqsUpTo(LwBytes, MaxLogChunk) \ {<<>>}

\* a chunk that is one line of printable bytes ended by LF or CR LF
LineOf(chunk) == SelectSeq(chunk, LAMBDA c : c \notin {CR, LF})

IsLine(chunk) ==
    /\ LineOf(chunk) # <<>>
    /\ chunk \in {LineOf(chunk) \o <<LF>>, LineOf(chunk) \o <<CR, LF>>}
    /\ cleanLogData(LineOf(chunk)) = LineOf(chunk)

\* line is in the map of recent lines and has not expired
Recent(w, line, now) ==
    line \in DOMAIN w.repeats.lines /\ ~(now - w.repeats.lines[line] > Ttl)

NoRun == [line |-> <<>>, n |-> 0, since |-> 0, fresh |-> FALSE, within |-> FALSE, out |-> <<>>]

\* history: how many times the same line has been written in a row, when the
\* first copy came, whether the line was new then, whether every copy came
\* within Ttl of the first, and the bytes appended since
RunAfter(chunk, out) ==
    IF ~IsLine(chunk) THEN NoRun
    ELSE IF run.n > 0 /\ LineOf(chunk) = run.line THEN
        [run EXCEPT !.n = @ + 1, !.within = @ /\ clock - run.since <= Ttl, !.out = @ \o out]
    ELSE [line |-> LineOf(chunk), n |-> 1, since |-> clock,
          fresh |-> ~Recent(writer, LineOf(chunk), clock), within |-> TRUE, out |-> out]

LwInit ==
    /\ writer = FreshWriter
    /\ logFile = <<>>
    /\ lastChunk = <<>>
    /\ lastOut = <<>>
    /\ clock = 0
    /\ nWrites = 0
    /\ run = NoRun

\* Writer.Write(serverName, data)
WriteDone(chunk, r) ==
    /\ writer' = r.w
    /\ logFile' = logFile \o r.out
    /\ lastOut' = r.out
    /\ run' = RunAfter(chunk, r.out)

LwWrite(chunk) ==
    /\ nWrites < MaxDupWrites
    /\ WriteDone(chunk, Write(writer, chunk, clock))
    /\ lastChunk' = chunk
    /\ nWrites' = nWrites + 1
    /\ UNCHANGED <<clock, offLw>>

\* time passes between two Write calls
LwTick ==
    /\ clock < MaxClock
    /\ clock' = clock + TickStep
    /\ UNCHANGED <<writer, logFile, lastChunk, lastOut, nWrites, run, offLw>>

\* ---------------------------------------------------------------------
\* The log directory of one server: the files on disk, the symlink
\* current.log and the file the writer holds open (logs/writer.go), and
\* the rotate request of the HTTP API (server/server.go).
\* ---------------------------------------------------------------------
RtServer == "srv1"

NoLink == [exists |-> FALSE, target |-> "", mtime |-> 0]

Never == [exists |-> FALSE, at |-> 0]

\* time.Now().Format("2006-01-02_15-04-05") + ".log": one name per second
StampName(now) == ToString(now) \o ".log"

\* the names a rotate request may carry; "" asks for a name from the clock
LogNames == {"", "boot", "boot.log"}

\* filepath.Ext(logName) == ".log"
HasLogExt(logName) == logName \in {"boot.log"}

\* RotateWithName, lines 346-353
NameOf(logName, now) ==
    IF logName = "" THEN StampName(now)
    ELSE IF HasLogExt(logName) THEN logName
    ELSE logName \o ".log"

\* os.OpenFile(path, O_CREATE|O_WRONLY|O_APPEND): the file is made when it
\* is not there, and kept as it is when it is
Created(disk, name, now) ==
    IF name \in DOMAIN disk THEN disk
    ELSE [k \in DOMAIN disk \cup {name} |-> IF k = name THEN now ELSE disk[k]]

Linked(name, now) == [exists |-> TRUE, target |-> name, mtime |-> now]

EmptyDir == [k \in {} |-> 0]

RtInit ==
    /\ dirExists = FALSE
    /\ onDisk = EmptyDir
    /\ currentLog = NoLink
    /\ files = "none"
    /\ lastRotation = Never
    /\ rtNow = 0
    /\ rtOp = "none"
    /\ nRtOps = 0
    /\ nRtTicks = 0

RtDone(op) ==
    /\ rtOp' = op
    /\ nRtOps' = nRtOps + 1
    /\ UNCHANGED <<rtNow, nRtTicks>>

\* handleRotateLogs: RotateWithName(name, logName) and the answer; Rotate(name)
\* is RotateWithName(name, ""). ok: MkdirAll and OpenFile succeed.
RtRotate(logName, ok) ==
    /\ nRtOps < MaxRtOps
    /\ lastRotation' = [exists |-> TRUE, at |-> rtNow]
    /\ writer' = [writer EXCEPT !.lastLine = NoLast, !.trailingNL = 0,
                                !.repeats = FreshWriter.repeats]
    /\ IF ok
       THEN /\ dirExists' = TRUE
            /\ onDisk' = Created(onDisk, NameOf(logName, rtNow), rtNow)
            /\ files' = NameOf(logName, rtNow)
            /\ currentLog' = Linked(NameOf(logName, rtNow), rtNow)
       ELSE /\ files' = "none"
            /\ currentLog' = NoLink
            /\ UNCHANGED <<dirExists, onDisk>>
    /\ RtDone("Rotate")
    /\ UNCHANGED <<logFile, lastChunk, lastOut, clock, nWrites, run, offRtLw>>

\* getOrCreateFile, the file it returns
Continues == currentLog.exists /\ currentLog.target \in DOMAIN onDisk

\* the bytes go to the open file; a file that is still in the directory
\* gets a new modification time
Touched(disk, name, now) ==
    IF name \in DOMAIN disk THEN [disk EXCEPT ![name] = now] ELSE disk

\* Writer.Write: getOrCreateFile and f.Write; wrote: the cleaned chunk is
\* not empty
RtWrite(wrote) ==
    /\ nRtOps < MaxRtOps
    /\ IF files # "none"
       THEN /\ onDisk' = IF wrote THEN Touched(onDisk, files, rtNow) ELSE onDisk
            /\ UNCHANGED <<dirExists, files, currentLog>>
       ELSE /\ dirExists' = TRUE
            /\ IF Continues
               THEN /\ files' = currentLog.target
                    /\ onDisk' = IF wrote THEN Touched(onDisk, currentLog.target, rtNow) ELSE onDisk
                    /\ UNCHANGED currentLog
               ELSE /\ files' = StampName(rtNow)
                    /\ onDisk' = IF wrote THEN Touched(Created(onDisk, StampName(rtNow), rtNow), StampName(rtNow), rtNow)
                                 ELSE Created(onDisk, StampName(rtNow), rtNow)
                    /\ currentLog' = Linked(StampName(rtNow), rtNow)
    /\ RtDone("Write")
    /\ UNCHANGED <<lastRotation, offRt>>

\* ClearLogs: every file of the directory and the symlink are removed and
\* a fresh file is opened
RtClearLogs ==
    /\ nRtOps < MaxRtOps
    /\ dirExists' = TRUE
    /\ onDisk' = Created(EmptyDir, StampName(rtNow), rtNow)
    /\ files' = StampName(rtNow)
    /\ currentLog' = Linked(StampName(rtNow), rtNow)
    /\ RtDone("ClearLogs")
    /\ UNCHANGED <<lastRotation, offRt>>

\* ClearAllLogs: the same for every directory under the base path; a
\* server without a directory gets none
RtClearAllLogs ==
    /\ nRtOps < MaxRtOps
    /\ IF dirExists
       THEN /\ onDisk' = Created(EmptyDir, StampName(rtNow), rtNow)
            /\ files' = StampName(rtNow)
            /\ currentLog' = Linked(StampName(rtNow), rtNow)
       ELSE /\ files' = "none"
            /\ UNCHANGED <<onDisk, currentLog>>
    /\ RtDone("ClearAllLogs")
    /\ UNCHANGED <<dirExists, lastRotation, offRt>>

\* info.ModTime().Before(cutoff), cutoff = now - retentionDays
Old(mtime, now) == mtime < now - RetentionDays * DaySecs

\* Cleanup: every entry of the directory named *.log, the symlink
\* current.log included, is removed when its own modification time is
\* before the cutoff; w.files is not looked at
RtCleanup ==
    /\ nRtOps < MaxRtOps
    /\ RetentionDays > 0
    /\ onDisk' = [k \in {n \in DOMAIN onDisk : ~Old(onDisk[n], rtNow)} |-> onDisk[k]]
    /\ currentLog' = IF currentLog.exists /\ Old(currentLog.mtime, rtNow) THEN NoLink ELSE currentLog
    /\ RtDone("Cleanup")
    /\ UNCHANGED <<dirExists, files, lastRotation, offRt>>

\* a second, the cooldown, or more than the retention passes
RtSteps == {1, Cooldown, RetentionDays * DaySecs + 1}

RtTick(d) ==
    /\ nRtTicks < MaxRtTicks
    /\ rtNow' = rtNow + d
    /\ nRtTicks' = nRtTicks + 1
    /\ UNCHANGED <<dirExists, onDisk, currentLog, files, lastRotation, rtOp, nRtOps, offRt>>

(***************************************************************************)
(* Boot analytics: Analytics.ProcessText and Analytics.RecordRotation      *)
(* (logs/writer.go lines 862-970 and 1013-1029) for one server, RtServer.  *)
(* A chunk of console text is what the detectors make of it: whether       *)
(* matchesBIOS and matchesOS match, the name detectOS returns, the name    *)
(* detectHostname returns and whether a network pattern matches. Times are *)
(* seconds of the clock rtNow; an optional time is [exists, at].           *)
(***************************************************************************)

\* writer.go line 895: a BIOS banner archives a boot older than this
ArchiveAfter == 30

\* writer.go line 899: the boots kept in BootHistory
HistoryCap == 10

OsNames == {"fedora", "coreos"}

Texts ==
    [bios : BOOLEAN, osUp : BOOLEAN, os : {""} \cup OsNames,
     hostname : {"", "h1"}, net : BOOLEAN]

At(t) == [exists |-> TRUE, at |-> t]

\* CurrentBoot == nil
NoBoot ==
    [active |-> FALSE, startTime |-> 0, endTime |-> Never, bootDuration |-> 0,
     powerOnDelay |-> 0, rotationTime |-> Never, complete |-> FALSE,
     detectedOS |-> "", networkEvents |-> 0]

\* lines 911-914: &BootEvent{StartTime: time.Now(), Complete: false}
NewBoot(now) == [NoBoot EXCEPT !.active = TRUE, !.startTime = now]

\* lines 867-872: the entry ProcessText and RecordRotation create
NewServer ==
    [lastSeen |-> Never, pendingRotation |-> Never, rotationDelay |-> 0,
     rotationTime |-> Never, currentBoot |-> NoBoot, bootHistory |-> <<>>,
     osUpSince |-> Never, totalReboots |-> 0, currentOS |-> "",
     hostname |-> ""]

\* lines 878-884: the first output after a rotation consumes the mark
Consumed(s, now) ==
    IF s.pendingRotation.exists
      THEN [s EXCEPT !.rotationDelay = now - s.pendingRotation.at,
                     !.rotationTime = s.pendingRotation,
                     !.pendingRotation = Never]
      ELSE s

\* lines 899-901: only the last HistoryCap boots are kept
LastBoots(h) == IF Len(h) > HistoryCap THEN Tail(h) ELSE h

\* lines 890-906: a BIOS banner archives a boot older than 30 seconds
Archived(s, now) ==
    IF s.currentBoot.active /\ now - s.currentBoot.startTime > ArchiveAfter
      THEN [s EXCEPT !.bootHistory = LastBoots(Append(@, s.currentBoot)),
                     !.currentBoot = NoBoot,
                     !.osUpSince = Never]
      ELSE s

\* lines 916-921: the rotation data goes into the new boot event
Marked(s) ==
    IF s.rotationTime.exists
      THEN [s EXCEPT !.currentBoot.rotationTime = s.rotationTime,
                     !.currentBoot.powerOnDelay = s.rotationDelay,
                     !.rotationTime = Never,
                     !.rotationDelay = 0]
      ELSE s

\* lines 909-924: a new boot is tracked when none is
Started(s, now) ==
    IF ~s.currentBoot.active
      THEN [Marked([s EXCEPT !.currentBoot = NewBoot(now)])
               EXCEPT !.totalReboots = @ + 1]
      ELSE s

\* lines 887-925
OnBIOS(s, text, now) ==
    IF text.bios THEN Started(Archived(s, now), now) ELSE s

\* lines 928-942
OnOSUp(s, text, now) ==
    IF ~text.osUp THEN s
    ELSE IF s.currentBoot.active /\ ~s.currentBoot.complete
      THEN [s EXCEPT !.currentBoot.endTime = At(now),
                     !.currentBoot.bootDuration = now - s.currentBoot.startTime,
                     !.currentBoot.complete = TRUE,
                     !.osUpSince = At(now)]
    ELSE IF ~s.osUpSince.exists
      THEN [s EXCEPT !.osUpSince = At(now)]
    ELSE s

\* lines 947-950: the boot event gets the name
BootDetected(s, os) ==
    IF s.currentBoot.active
      THEN [s EXCEPT !.currentBoot.detectedOS = os]
      ELSE s

\* lines 945-953
OnDetectOS(s, text) ==
    IF text.os # "" /\ s.currentOS # text.os
      THEN BootDetected([s EXCEPT !.currentOS = text.os], text.os)
      ELSE s

\* lines 956-961
OnHostname(s, text) ==
    IF text.hostname # "" /\ s.hostname # text.hostname
      THEN [s EXCEPT !.hostname = text.hostname]
      ELSE s

\* line 964, trackNetworkEvents: events are kept in the current boot only
OnNetwork(s, text) ==
    IF text.net /\ s.currentBoot.active
      THEN [s EXCEPT !.currentBoot.networkEvents = @ + 1]
      ELSE s

\* line 875 and lines 878-884
Arrived(s, now) == Consumed([s EXCEPT !.lastSeen = At(now)], now)

\* lines 887-961, the steps that set changed
Detected(s, text, now) ==
    OnHostname(OnDetectOS(OnOSUp(OnBIOS(s, text, now), text, now), text), text)

\* lines 967-969: a.save() writes analytics.json when changed is set; the
\* write leaves the whole file or, when it fails, a part of it
SavedFile(s, text, now, bytes) ==
    IF Detected(Arrived(s, now), text, now) # Arrived(s, now)
      THEN [ver |-> anVer + 1, bytes |-> bytes]
      ELSE aPath

\* what os.WriteFile leaves in analytics.json: all of it, or a part
SaveOutcomes == {"all", "some"}

BtInit ==
    /\ analytics = NewServer
    /\ nTexts = 0

\* ProcessText(serverName, text), lines 862-970
ProcessText(text, bytes) ==
    /\ nTexts < MaxTexts
    /\ nTexts' = nTexts + 1
    /\ analytics' = OnNetwork(Detected(Arrived(analytics, rtNow), text, rtNow), text)
    /\ aPath' = SavedFile(analytics, text, rtNow, bytes)
    /\ anVer' = aPath'.ver
    /\ UNCHANGED <<cPath, cTmp, csPc, csVer, anPc, crashed, offBtFs>>

\* RecordRotation(serverName), lines 1013-1029. Manager.RecordRotation
\* (sol/manager.go lines 74-76) is its only caller, and nothing calls that:
\* handleRotateLogs (server/server.go lines 447-469) rotates the file only.
RecordRotation ==
    /\ analytics' = [analytics EXCEPT !.pendingRotation = At(rtNow)]
    /\ UNCHANGED <<nTexts, offBt>>

(***************************************************************************)
(* The stream handler of one client, handleStream (server/sse.go lines     *)
(* 45-78), next to the data branch of connectSOL (sol/manager.go lines     *)
(* 429-441) of the server's task: each chunk goes to broadcast, then to    *)
(* the screen buffer, then to the log. A chunk is its number, and is one   *)
(* byte of the screen buffer and of the log.                               *)
(***************************************************************************)

\* the channel the handler's Subscribe makes: the first one of the server
StreamChan == CHOOSE c \in Chans : \A d \in Chans : c <= d

NoCatchup == [from |-> "none", bytes |-> <<>>, upTo |-> 0]

StInit ==
    /\ stCatch = NoCatchup
    /\ stLog = <<>>

LastOf(s) == IF s = <<>> THEN 0 ELSE s[Len(s)]

\* connectSOL, line 432: m.broadcast(name, data) for the next chunk, once
\* the chunk before it has been through the loop body
NextBroadcast ==
    /\ bc.pc = "returned" => LastOf(stLog) = bc.chunk
    /\ BroadcastSnapshot

\* connectSOL, line 435: sb.Write(data) after broadcast has returned
ScreenWrite ==
    /\ bc.pc = "returned"
    /\ LastOf(sbAll) < bc.chunk
    /\ SbWrite(<<bc.chunk>>)

\* connectSOL, lines 438-440: m.logWriter.Write(name, data)
LogAppend ==
    /\ bc.pc = "returned"
    /\ LastOf(sbAll) = bc.chunk
    /\ LastOf(stLog) < bc.chunk
    /\ stLog' = Append(stLog, bc.chunk)
    /\ UNCHANGED <<stCatch, offSt>>

\* handleStream, lines 48-53: the screen buffer, when it holds bytes, is the
\* catchup; lines 54-73: otherwise the tail of the current log is
CatchupOf(screenBuf) ==
    IF Len(screenBuf) > 0
      THEN [from |-> "screen", bytes |-> screenBuf, upTo |-> nextChunk - 1]
      ELSE [from |-> "log", bytes |-> stLog, upTo |-> nextChunk - 1]

\* handleStream, lines 45-74: GetScreenBuffer and the catchup event
StreamCatchup ==
    /\ stCatch.from = "none"
    /\ stCatch' = CatchupOf(sbData)
    /\ sbOut' = [bytes |-> [i \in 1..Len(sbData) |-> sbData[i]], of |-> sbAll]
    /\ UNCHANGED <<sbData, sbAll, stLog, offStSb>>

\* handleStream, line 77: ch := s.solManager.Subscribe(name)
StreamSubscribe ==
    /\ stCatch.from # "none"
    /\ Subscribe(StreamChan)

\* handleStream, lines 81-95: a chunk is taken from ch and sent as an event
StreamEvent ==
    /\ stCatch.from # "none"
    /\ Recv(StreamChan)

\* handleStream, lines 78 and 82-83: the client goes away and the deferred
\* Unsubscribe runs
StreamDone ==
    /\ stCatch.from # "none"
    /\ Unsubscribe(StreamChan)

(***************************************************************************)
(* The BMC as sender of SOL data packets to readLoop (go-sol/payload.go    *)
(* lines 206-257). The k-th packet that arrives carries the packet         *)
(* sequence number bmcSent[k]; a packet the BMC sends again, because no    *)
(* ACK for it came back, has the number and the bytes of the one before.   *)
(***************************************************************************)
BmInit == bmcSent = <<>>

\* the BMC sends new character data, one packet at a time, numbered as
\* sendSolData numbers the packets of this side: a byte, 0 left out
BmcSend ==
    /\ Len(bmcSent) < nextIn
    /\ Len(bmcSent) < MaxIn
    /\ bmcSent' = Append(bmcSent, NextSolSeq(LastOf(bmcSent)))
    /\ UNCHANGED offBm

\* the BMC has seen no ACK for its last packet (sendSolAck's conn.Write
\* failed, lines 348-350, or the datagram was lost) and sends it again
BmcRetransmit ==
    /\ Len(bmcSent) < nextIn
    /\ Len(bmcSent) < MaxIn
    /\ bmcSent # <<>>
    /\ bmcSent' = Append(bmcSent, LastOf(bmcSent))
    /\ UNCHANGED offBm

\* readLoop, lines 174-176 and 206-257: conn.Read returns the packet the BMC
\* sent; header.PacketSeq goes to s.ackSeqNum (lines 236-239) and is
\* compared with nothing
RxPacket ==
    /\ Len(bmcSent) >= nextIn
    /\ RxData
(***************************************************************************)
(* Initial values                                                          *)
(***************************************************************************)
InvInit ==
    /\ servers = [n \in Names |-> Unknown]
    /\ hnd = [h \in Handlers |-> HndIdle]
    /\ hc = HcIdle

RdInit ==
    /\ rdPc = "run"
    /\ rdLast = 0
    /\ rdQuiet = 0
    /\ rdErr = "none"
    /\ rdDone = FALSE

\* Scanner.Run, lines 131-146: no cache, or the servers of the cache file (as
\* Cache.Save wrote them: applyBMH only ever stores Online = true) and the
\* handler called with them
CacheInit ==
    /\ hc = HcIdle
    /\ \/ /\ servers = [n \in Names |-> Unknown]
          /\ hnd = [h \in Handlers |-> HndIdle]
       \/ /\ \E o \in Objects :
                servers = [n \in Names |-> [known |-> TRUE, online |-> TRUE, ip |-> o[1],
                                            user |-> o[2], pass |-> o[3]]]
          /\ hnd = [h \in Handlers |-> IF h = 1 THEN [pc |-> "get", got |-> 0] ELSE HndIdle]

\* the state right after the first StartSession("srv1", "ip1", "u1", "p1")
\* of a new Manager
TaskInit ==
    /\ sessions = [n \in Names |-> 1]
    /\ sess = [i \in SessIds |-> IF i = 1
                 THEN [NoSession EXCEPT !.name = "srv1", !.ip = "ip1", !.user = "u1", !.pass = "p1"]
                 ELSE NoSession]
    /\ nextSess = 2
    /\ tpc = [i \in SessIds |-> IF i = 1 THEN "top" ELSE "none"]
    /\ backoff = [i \in SessIds |-> BackoffStart]
    /\ sinceConn = [i \in SessIds |-> 0]
    /\ sinceEst = [i \in SessIds |-> -1]
    /\ nWaits = [i \in SessIds |-> 0]
    /\ cur = [i \in SessIds |-> NoTransport]
    /\ prev = [i \in SessIds |-> NoPrev]
    /\ faults = MaxFaults

\* a new Manager, and what the BMC and the network may do to it
MgrInit ==
    /\ sessions = [n \in Names |-> 0]
    /\ sess = [i \in SessIds |-> NoSession]
    /\ nextSess = 1
    /\ tpc = [i \in SessIds |-> "none"]
    /\ backoff = [i \in SessIds |-> BackoffStart]
    /\ sinceConn = [i \in SessIds |-> 0]
    /\ sinceEst = [i \in SessIds |-> -1]
    /\ nWaits = [i \in SessIds |-> 0]
    /\ cur = [i \in SessIds |-> NoTransport]
    /\ prev = [i \in SessIds |-> NoPrev]
    /\ faults = MaxFaultsSup

\* the parts added to the first four, as they start
ExtInit == FanInit /\ TxInit /\ RxInit /\ CnInit /\ SbInit /\ ScInit /\ FsInit /\ LwInit /\ RtInit /\ BtInit /\ StInit /\ BmInit

(***************************************************************************)
(* Specifications                                                          *)
(***************************************************************************)
\* the broadcast fabric alone
InitHub == HubInit /\ SupInit /\ InvInit /\ RdInit /\ ExtInit

SpecHub == InitHub /\ [][HubNext]_vars

\* one supervisor task and its transport; StopSession cancels it
TaskNext ==
    \/ TaskStep(1)
    \/ PumpTerminalError(1)
    \/ PumpExit(1)
    \/ \E d \in TickSteps : Tick(d)
    \/ CallStop("srv1")

InitTask == HubInit /\ TaskInit /\ InvInit /\ RdInit /\ ExtInit

SpecTask == InitTask /\ [][TaskNext]_vars

\* the scheduler runs every task that can take a step
FairTask == SpecTask /\ \A s \in SessIds : WF_vars(TaskStep(s))

\* the Manager under any interleaving of StartSession, StopSession and
\* RestartSession calls
SupNext ==
    \/ \E n \in Names, o \in Objects : CallStart(n, o)
    \/ \E n \in Names : CallStop(n)
    \/ \E n \in Names : CallRestart(n)
    \/ R_Read
    \/ R_Stop
    \/ R_Start
    \/ \E s \in SessIds : TaskStep(s)
    \/ \E s \in SessIds : PumpTerminalError(s)
    \/ \E s \in SessIds : PumpExit(s)

InitSup == HubInit /\ MgrInit /\ InvInit /\ RdInit /\ ExtInit

SpecSup == InitSup /\ [][SupNext]_vars

\* the program: inventory, handler, health check, supervisor tasks
Next ==
    \/ \E n \in Names, o \in Objects : ApplyBMH(n, o)
    \/ NotifyUnchanged
    \/ \E h \in Handlers, n \in Names : H_Get(h, n)
    \/ \E h \in Handlers, n \in Names : H_Start(h, n)
    \/ \E h \in Handlers, n \in Names : H_RestartStop(h, n)
    \/ \E h \in Handlers, n \in Names : H_RestartStart(h, n)
    \/ HC_Scan
    \/ R_Read
    \/ R_Stop
    \/ R_Start
    \/ \E s \in SessIds : TaskStep(s)
    \/ \E s \in SessIds : PumpStep(s)
    \/ \E d \in SilenceSteps : Silence(d)

Init == HubInit /\ MgrInit /\ CacheInit /\ RdInit /\ ExtInit

Spec == Init /\ [][Next]_vars


\* the read pump of one transport
ReadNext ==
    \/ \E d \in QuietSteps : RdQuiet(d)
    \/ \E k \in Kinds : RdDatagram(k)
    \/ RdTimeout
    \/ RdSocketError
    \/ RdClose
    \/ RdSeeDone

InitRead == HubInit /\ SupInit /\ InvInit /\ RdInit /\ ExtInit

SpecRead == InitRead /\ [][ReadNext]_vars

\* the pump is a task of its own and conn.Read returns within its 100 ms
\* deadline, so an exit that stays possible is taken
FairRead == SpecRead /\ WF_vars(RdTimeout) /\ WF_vars(RdSeeDone)

\* two sessions of one server, a BMC that fails nothing, and the chunks it
\* sends: the tasks hand them to the consumers
FanNext ==
    \/ \E n \in Names, o \in Objects : CallStart(n, o)
    \/ \E s \in SessIds : TaskTop(s)
    \/ \E s \in SessIds : TaskConnectOk(s)
    \/ \E s \in SessIds : TaskPublish(s)
    \/ \E s \in SessIds : SelectCancel(s)
    \/ \E s \in SessIds : SelectReadClosed(s)
    \/ \E s \in SessIds : PumpExit(s)
    \/ \E s \in SessIds : DataArrive(s)
    \/ \E s \in SessIds : SelectData(s)
    \/ \E s \in SessIds : HandOut(s)

InitFan == HubInit /\ SupInit /\ InvInit /\ RdInit /\ ExtInit

SpecFan == InitFan /\ [][FanNext]_vars

\* one connected transport: callers of Write, the write pump, the read pump's
\* ACKs, the keepalive pump and a caller of Close
TxNext ==
    \/ \E n \in 0..MaxWriteLen : WriteCall(n)
    \/ WriteQueued
    \/ WriteSeesDone
    \/ WlTake
    \/ WlChunk
    \/ WlChunkFail
    \/ WlExit
    \/ SendAck
    \/ \E t \in AuthSenders : AuthStore(t)
    \/ \E t \in AuthSenders : AuthSend(t)
    \/ AuthWaitEnd(1)
    \/ KaTick
    \/ KaExit
    \/ ClCall(1)
    \/ ClDone(1)
    \/ ClShut(1)

InitTx == HubInit /\ SupInit /\ InvInit /\ RdInit /\ FanInit /\ TxInitAny /\ RxInit /\ CnInit /\ SbInit /\ ScInit /\ FsInit /\ LwInit /\ RtInit /\ BtInit /\ StInit /\ BmInit

SpecTx == InitTx /\ [][TxNext]_vars

\* one connected transport: the read pump, its drain task, the receiver of
\* Read() and one caller of Close
RxNext ==
    \/ RxTop
    \/ RxData
    \/ RxNothing
    \/ RxError
    \/ RxJoin
    \/ DrainTake
    \/ DrainEnd
    \/ DrainPut
    \/ DrainSeeDone
    \/ ReadRecv
    \/ ClCall(1)
    \/ ClDone(1)
    \/ AuthStore(1)
    \/ AuthSend(1)
    \/ AuthWaitEnd(1)
    \/ ClShut(1)

InitRx == HubInit /\ SupInit /\ InvInit /\ RdInit /\ ExtInit

SpecRx == InitRx /\ [][RxNext]_vars

\* one supervisor task connecting again and again to a BMC that may fail
\* any step of the handshake
ConnNext ==
    \/ CnNew
    \/ \E ok \in BOOLEAN : CnDial(ok)
    \/ \E ok \in BOOLEAN : CnHandshake(ok)
    \/ CnDeactivate
    \/ \E res \in {"ok", "busy", "fail"} : CnActivate(res)
    \/ CnStart
    \/ SupMark
    \/ SupFail
    \/ SupSessionEnds

InitConn == HubInit /\ SupInit /\ InvInit /\ RdInit /\ ExtInit

SpecConn == InitConn /\ [][ConnNext]_vars

\* the tasks of one connected transport
WritePump == WlTake \/ WlChunk \/ WlChunkFail \/ WlExit

KeepaliveTask == AuthStore(KeepalivePump) \/ AuthSend(KeepalivePump) \/ KaExit

ReadPump == RxTop \/ RxData \/ RxNothing \/ RxError \/ RxJoin

DrainTask == DrainTake \/ DrainEnd \/ DrainPut \/ DrainSeeDone

\* a call of Close once it has been entered
InClose(c) == ClDone(c) \/ AuthStore(c) \/ AuthSend(c) \/ AuthWaitEnd(c) \/ ClShut(c)

\* one connected transport with all its pumps, a writer, the receiver of
\* Read() and the callers of Close (StartSession / StopSession and the
\* supervisor task); the writer and the BMC send less than in SpecTx and
\* SpecRx, and the keepalive pump waits for its ticker
CloseNext ==
    \/ nextW <= MaxWritesClose /\ WriteCall(1)
    \/ WriteQueued
    \/ WriteSeesDone
    \/ WlTake
    \/ WlChunk
    \/ WlChunkFail
    \/ WlExit
    \/ KaExit
    \/ \E t \in AuthSenders : AuthStore(t)
    \/ \E t \in AuthSenders : AuthSend(t)
    \/ \E c \in Closers : AuthWaitEnd(c)
    \/ \E c \in Closers : ClCall(c)
    \/ \E c \in Closers : ClDone(c)
    \/ \E c \in Closers : ClShut(c)
    \/ RxTop
    \/ nextIn <= MaxInClose /\ RxData
    \/ RxNothing
    \/ RxError
    \/ RxJoin
    \/ DrainTake
    \/ DrainEnd
    \/ DrainPut
    \/ DrainSeeDone
    \/ ReadRecv

InitClose == HubInit /\ SupInit /\ InvInit /\ RdInit /\ ExtInit

SpecClose == InitClose /\ [][CloseNext]_vars

\* every pump is a task of its own and each of its waits ends (the read
\* deadline of 100 ms, the write deadline of 5 s, the 2 s deadline of
\* sendRecv, a select with a raised done); a Close that has been entered
\* runs on. Nobody has to call Write, Close or take from Read().
FairClose ==
    /\ SpecClose
    /\ WF_vars(WritePump)
    /\ WF_vars(KeepaliveTask)
    /\ WF_vars(ReadPump)
    /\ WF_vars(DrainTask)
    /\ \A c \in Closers : WF_vars(InClose(c))

\* one screen buffer and its callers
ScreenNext ==
    \/ \E p \in Chunks : SbWrite(p)
    \/ SbBytes
    \/ SbReset

InitScreen == HubInit /\ SupInit /\ InvInit /\ RdInit /\ ExtInit

SpecScreen == InitScreen /\ [][ScreenNext]_vars

\* the scanner with an inventory that sends any events and lists
ScanNext ==
    \/ \E type \in {"ADDED", "MODIFIED", "DELETED"}, n \in ScNames, o \in ScObjects,
          saved \in BOOLEAN : ScWatch(type, n, o, saved)
    \/ \E list \in ScLists, saved \in BOOLEAN : ScFetch(list, saved)
    \/ ScFetchFail
    \/ ScHandle

InitScan == HubInit /\ SupInit /\ InvInit /\ RdInit /\ ExtInit

SpecScan == InitScan /\ [][ScanNext]_vars

\* the savers of the two state files and a kill at any moment
FilesNext ==
    \/ CsBegin
    \/ CsOpen
    \/ CsWrite
    \/ CsWriteFail
    \/ \E ok \in BOOLEAN : CsRename(ok)
    \/ AnBegin
    \/ AnOpen
    \/ AnWrite
    \/ AnWriteFail
    \/ Crash

InitFiles == HubInit /\ SupInit /\ InvInit /\ RdInit /\ ExtInit

SpecFiles == InitFiles /\ [][FilesNext]_vars

\* the log writer of one server fed with chunks
LogNext ==
    \/ \E chunk \in LwChunks : nWrites < MaxLogWrites /\ LwWrite(chunk)
    \/ LwTick

InitLog == HubInit /\ SupInit /\ InvInit /\ RdInit /\ ExtInit

SpecLog == InitLog /\ [][LogNext]_vars

\* the log writer of one server fed with whole lines
DupLines == {<<"a">>, <<"H">>}

DupNext ==
    \/ \E line \in DupLines : LwWrite(line \o <<LF>>)
    \/ LwTick

InitDup == HubInit /\ SupInit /\ InvInit /\ RdInit /\ ExtInit

SpecDup == InitDup /\ [][DupNext]_vars

\* the log directory of one server under the writer, the rotate request and
\* the retention job, with the sessions of the manager
RotNext ==
    \/ \E logName \in LogNames, ok \in BOOLEAN : RtRotate(logName, ok)
    \/ \E wrote \in BOOLEAN : RtWrite(wrote)
    \/ RtClearLogs
    \/ RtClearAllLogs
    \/ RtCleanup
    \/ \E d \in RtSteps : RtTick(d)
    \/ \E o \in Objects : CallStart(RtServer, o)
    \/ CallStop(RtServer)

InitRot == HubInit /\ SupInit /\ InvInit /\ RdInit /\ ExtInit

SpecRot == InitRot /\ [][RotNext]_vars

(***************************************************************************)
(* Boot analytics next to log rotation: rotate requests, chunks of console *)
(* text and the clock.                                                     *)
(***************************************************************************)
BootNext ==
    \/ \E logName \in LogNames, ok \in BOOLEAN :
          nRtOps < MaxBootRotations /\ RtRotate(logName, ok)
    \/ \E text \in Texts, bytes \in SaveOutcomes : ProcessText(text, bytes)
    \/ \E d \in RtSteps : RtTick(d)

InitBoot == HubInit /\ SupInit /\ InvInit /\ RdInit /\ ExtInit

SpecBoot == InitBoot /\ [][BootNext]_vars

(***************************************************************************)
(* One stream client next to the data branch of the server's task.         *)
(***************************************************************************)
StreamNext ==
    \/ StreamCatchup
    \/ StreamSubscribe
    \/ StreamEvent
    \/ StreamDone
    \/ NextBroadcast
    \/ BroadcastSend
    \/ BroadcastReturn
    \/ ScreenWrite
    \/ LogAppend

InitStream == HubInit /\ SupInit /\ InvInit /\ RdInit /\ ExtInit

SpecStream == InitStream /\ [][StreamNext]_vars

(***************************************************************************)
(* The receive side with a BMC that sends packets again.                   *)
(***************************************************************************)
RetxNext ==
    \/ BmcSend
    \/ BmcRetransmit
    \/ RxTop
    \/ RxPacket
    \/ RxNothing
    \/ DrainTake
    \/ DrainPut
    \/ ReadRecv

InitRetx == HubInit /\ SupInit /\ InvInit /\ RdInit /\ ExtInit

SpecRetx == InitRetx /\ [][RetxNext]_vars
\* what a subscriber has been handed, oldest first: taken plus still buffered
Handed(c) == delivered[c] \o chanBuf[c]

\* C1: the chunks a subscriber channel is handed are a subsequence, in
\* broadcast order, of the chunks broadcast after Subscribe returned: each
\* chunk at most once, in increasing broadcast order, none of them a chunk
\* whose broadcast had returned before the subscription.
C1_SubsequenceInOrder ==
    \A c \in Chans :
        /\ StrictlyIncreasing(Handed(c))
        /\ \A x \in Range(Handed(c)) : x > subAt[c]

\* C2: broadcast never blocks and always returns; a full channel loses the
\* chunk for that subscriber only, and every subscriber that stays
\* registered and had free buffer space has the chunk when broadcast returns.
C2_BroadcastReachesAllFree ==
    /\ ~panicked
    /\ bc.pc = "returned" =>
          \A c \in bc.stable \ bc.full : bc.chunk \in Range(Handed(c))

\* a supervisor task that has been started and whose context is not cancelled
LiveTasks(n) == {s \in SessIds : tpc[s] # "none" /\ sess[s].name = n /\ ~sess[s].cancelled}

\* C3: under any interleaving of StartSession, StopSession and
\* RestartSession, the only task of a name with an un-cancelled context is
\* the one whose Session is registered; and a StartSession on a name that
\* has a session leaves the old task cancelled and its transport (one whose
\* Connect has returned) closed when it registers the new Session.
C3_OneLiveTaskPerName ==
    [][ /\ \A n \in Names : LiveTasks(n)' \subseteq {sessions'[n]}
        /\ \A n \in Names :
              (sessions[n] # 0 /\ sessions'[n] = nextSess /\ nextSess' = nextSess + 1) =>
                  /\ sess'[sessions[n]].cancelled
                  /\ cur[sessions[n]].st = "active" => cur'[sessions[n]].closed
      ]_vars

\* C4: while its context is not cancelled, a task that waits after a failed
\* connect attempt or an ended session, or whose transport's read pump has
\* ended, gets to another connect attempt; and a task returns only after
\* its context was cancelled.
C4_RetriesUntilCancelled ==
    /\ \A s \in SessIds :
          ((tpc[s] = "wait" \/ cur[s].rl = "exited") /\ ~sess[s].cancelled)
              ~> (tpc[s] = "connect" \/ sess[s].cancelled)
    /\ [](\A s \in SessIds : tpc[s] = "exit" => sess[s].cancelled)

\* a task has waited, is not cancelled and connects again
C4_Witness == tpc[1] = "connect" /\ nWaits[1] > 0 /\ ~sess[1].cancelled

\* the delay after k waits without a reset: 1, 2, 4, 8, 16, 32, 60, 60, ...
BackoffOfWaits(k) == IF k >= 6 THEN BackoffCap ELSE 2 ^ k

\* C5: the backoff is always one of 1, 2, 4, 8, 16, 32, 60 seconds, and the
\* k-th wait in a row of short-lived failures lasts 1, 2, 4, 8, 16, 32, 60,
\* 60, ... seconds.
C5_BackoffSchedule ==
    \A s \in SessIds :
        /\ backoff[s] \in {1, 2, 4, 8, 16, 32, 60}
        /\ backoff[s] = BackoffOfWaits(nWaits[s])

\* the eighth wait in a row lasts 60 s
C5_Witness == tpc[1] = "wait" /\ nWaits[1] = 7 /\ backoff[1] = BackoffCap

\* C6: when connectSOL has returned, the backoff is reset to 1 s if the
\* session that ended had been established for at least 30 s, and is left
\* as it was otherwise, in particular after an attempt that never
\* established a session.
C6_ResetOnlyAfterLongSession ==
    [][ \A s \in SessIds :
            (tpc[s] \in {"connect", "loop"} /\ tpc'[s] = "wait") =>
                backoff'[s] = IF sinceEst[s] >= ResetAfter THEN BackoffStart ELSE backoff[s]
      ]_vars

\* C7: when a task starts a connect attempt, the transport it had before, if
\* its read pump ended with a terminal error, has been closed.
C7_TerminalErrorClosesTransport ==
    \A s \in SessIds :
        (tpc[s] = "connect" /\ prev[s].term) => prev[s].st = "closed"

C9_RestartsTheStaleSession ==
    hc.pc = "start" =>
        /\ hc.stopped = hc.judged
        /\ hc.ip = sess[hc.judged].ip
        /\ hc.user = sess[hc.judged].user
        /\ hc.pass = sess[hc.judged].pass

\* the Session registered for n has a user or secret other than the inventory's
CredsDiffer(n) ==
    /\ servers[n].known /\ servers[n].online /\ sessions[n] # 0
    /\ \/ sess[sessions[n]].user # servers[n].user
       \/ sess[sessions[n]].pass # servers[n].pass

\* C10: a handler that finds, for an online server with a session, a user or
\* secret in the inventory that differs from the session's takes the
\* restart branch; its StopSession cancels and removes the session; its
\* StartSession registers a new session with the inventory's credentials
\* (the configured ones where the inventory's are empty).
C10_CredentialChangeRestarts ==
    [][ \A h \in Handlers, n \in Names :
          /\ (hnd[h].pc = "get" /\ hnd'[h].pc # "get" /\ CredsDiffer(n))
                => hnd'[h].pc = "restop"
          /\ (hnd[h].pc = "restop" /\ hnd'[h].pc = "restart")
                => /\ sessions'[n] = 0
                   /\ sessions[n] # 0 => sess'[sessions[n]].cancelled
          /\ (hnd[h].pc = "restart" /\ hnd'[h].pc = "idle")
                => /\ sessions'[n] = nextSess
                   /\ sess'[nextSess].user = EffUser(servers[n].user)
                   /\ sess'[nextSess].pass = EffPass(servers[n].pass)
                   /\ ~sess'[nextSess].cancelled
      ]_vars

\* the first session is cancelled and a second one, with another user, is
\* registered: the handler's restart has run
C10_Witness ==
    /\ sessions["srv1"] = 2
    /\ sess[1].cancelled
    /\ sess[2].user # sess[1].user
    /\ sess[2].user = EffUser(servers["srv1"].user)

\* the consumers chunk x has been handed to, in the order of the calls
CallsFor(x) == SelectSeq(handed, LAMBDA e : e[2] = x)

\* C11: each chunk goes to broadcast, screen buffer, log writer and
\* analytics in that order, and a chunk received after another goes to no
\* consumer before the earlier one has gone to all four.
C11_FanOutInOrder ==
    /\ \A j \in DOMAIN received :
          \A k \in DOMAIN CallsFor(received[j]) :
              k <= 4 /\ CallsFor(received[j])[k][1] = Consumers[k]
    /\ \A i, j \in DOMAIN received :
          (i < j /\ CallsFor(received[j]) # <<>>) => Len(CallsFor(received[i])) = 4

\* how often chunk x is among what a subscriber has been handed
TimesHanded(c, x) == Cardinality({i \in DOMAIN Handed(c) : Handed(c)[i] = x})

\* C12: the broadcast of a connection's clear-screen sequence returns, every
\* subscriber registered throughout it has been handed the sequence, no
\* subscriber is handed it twice, and no data chunk of the connection comes
\* before it.
C12_OneClearPerConnection ==
    /\ bc.chunk = ClearScreen => ~panicked
    /\ (bc.chunk = ClearScreen /\ bc.pc = "returned") =>
          \A c \in bc.stable : TimesHanded(c, ClearScreen) = 1
    /\ \A c \in Chans :
          /\ TimesHanded(c, ClearScreen) <= 1
          /\ \A i, j \in DOMAIN Handed(c) :
                (i < j /\ Handed(c)[j] = ClearScreen) => Handed(c)[i] = ClearScreen

\* C13: every SOL data packet the client sends has a packet sequence number
\* in 1..255, whatever the number and the sizes of the writes: the number
\* kept in the session and the one in the header in hand are never 0, the
\* number after 255 is 1, and a SOL packet with sequence number 0 is an
\* ACK-only packet.
C13_DataSeqNeverZero ==
    /\ solSeqNum \in 1..255
    /\ wl.pc = "loop" => wl.hdr \in 1..255
    /\ pkt.kind = "data" => pkt.pseq \in 1..255
    /\ (pkt.kind \in {"data", "ack"} /\ pkt.pseq = 0) => pkt.kind = "ack"
    /\ (wl.pc = "loop" /\ pkt.kind = "data" /\ pkt.w = wl.id /\ pkt.pseq = 255)
          => wl.hdr = 1
    /\ (wl.pc = "loop" /\ pkt.w # wl.id /\ wl.hdr = 255) => solSeqNum = 1

\* a data packet numbered 1 has followed the data packet numbered 255
C13_Witness == pkt.kind = "data" /\ lastData = 1 /\ prevData = 255

\* C14: of two SOL data packets sent one after the other on a session, the
\* later one carries the sequence number of the earlier one plus one (1 after
\* 255), inside one split write and from one write to the next.
C14_DataSeqConsecutive ==
    prevData # -1 => lastData = (IF prevData = 255 THEN 1 ELSE prevData + 1)

\* C15: while the negotiated integrity algorithm is not none, every packet
\* sent inside the session (IPMI command, keepalive, SOL data, SOL ACK)
\* carries a session sequence number strictly greater than that of the packet
\* sent before it, also with the keepalive pump, the write pump, the read
\* pump's ACKs and Close sending at the same time.
C15_SessionSeqIncreases ==
    [][(nPkts' # nPkts /\ integrityAlg # "none") => pkt'.sseq > pkt.sseq]_vars

\* C16: when sending the bytes of a Write call fails with a socket error,
\* that call of Session.Write returns the error to its caller.
C16_SocketErrorReturned ==
    \A w \in 1..MaxWrites : wfail[w] => wret[w] \notin {"nil", "none"}

\* what the drain task has in hand, as a sequence
InHand == IF hold = 0 THEN <<>> ELSE <<hold>>

\* C17: the read pump drops no datagram: while the session is not closed,
\* every character payload it has acknowledged to the BMC has been taken
\* from the Read channel or is on its way to it, in arrival order, however
\* slow the receiver is.
C17_NoPayloadDropped ==
    doneN = 0 => acked = got \o readCh \o InHand \o queue

\* C18: Connect returns nil, and starts pumps, only after GetChannelAuthCaps,
\* OpenSession, the RAKP exchange, SetSessionPrivilege and ActivatePayload
\* have succeeded in that order; when a step has failed, Connect has returned
\* an error, the UDP socket is no longer open, no pump is started and the
\* supervisor has not marked the session Connected.
C18_ConnectAllOrNothing ==
    /\ \A i \in DOMAIN cnSteps : i <= Len(HandshakeOrder) /\ cnSteps[i] = HandshakeOrder[i]
    /\ (cnRet = "nil" \/ cnPumps # {} \/ cnMarked) => cnSteps = HandshakeOrder
    /\ cnMarked => cnRet = "nil"
    /\ (cnFailedAt # "none" \/ cnRet = "error") =>
          /\ cnRet = "error"
          /\ cnFailedAt # "none"
          /\ cnConn # "open"
          /\ cnPumps = {}
          /\ ~cnMarked

\* ActivatePayload has failed for good after the four steps before it had
\* succeeded, and Connect has returned
C18_Witness ==
    /\ cnPc = "returned"
    /\ cnFailedAt = "activate"
    /\ Len(cnSteps) = 4
    /\ cnTry > 1

\* done has been raised once, every pump and the drain task have returned
\* and no call of Close is under way
AllStopped ==
    /\ doneN = 1
    /\ wl.pc = "exited"
    /\ au[KeepalivePump].pc = "exited"
    /\ rxPc = "exited"
    /\ drainPc = "exited"
    /\ \A c \in Closers : au[c].pc \in {"idle", "returned"}

\* C19: Session.Close may be called again and by several callers at once:
\* the done signal is raised once, DeactivatePayload and CloseSession are
\* sent at most once, and once Close has been called the read, write and
\* keepalive pumps and the drain task all return and every call of Close
\* returns, whether or not the BMC answers.
C19_CloseOnceAndStops ==
    /\ [](doneN <= 1 /\ sent.deactivate <= 1 /\ sent.closeSession <= 1)
    /\ (closed ~> AllStopped)

\* both callers have called Close and returned, with everything stopped
C19_Witness ==
    /\ AllStopped
    /\ \A c \in Closers : au[c].pc = "returned"
    /\ sent.deactivate = 1
    /\ sent.closeSession = 1

\* the last n elements of s
LastN(s, n) == SubSeq(s, Len(s) - n + 1, Len(s))

\* the last min(written, cap) bytes of what was written
Rolling(all) == LastN(all, IF Len(all) < SbCap THEN Len(all) ELSE SbCap)

\* C20: after any Writes since creation or the last Reset, Bytes() returns
\* exactly the last min(total bytes written, cap) bytes of the concatenated
\* input: never more than cap bytes, and the last cap bytes once more than
\* cap bytes have been written.
C20_BytesIsTail ==
    /\ sbData = Rolling(sbAll)
    /\ sbOut.bytes = Rolling(sbOut.of)
    /\ Len(sbOut.bytes) <= SbCap

\* Bytes() has been called after more than cap bytes were written in more
\* than one Write, the last byte differing from the first one kept
C20_Witness ==
    /\ Len(sbOut.of) > SbCap + 1
    /\ Len(sbOut.bytes) = SbCap
    /\ sbOut.bytes[1] # sbOut.bytes[SbCap]
    /\ sbOut.bytes[1] # sbOut.of[1]

\* C21: a DELETED watch event changes nothing: the map entry of the named
\* server, the cache file, the notifications issued and the running sessions
\* are as before; and no event or list ever takes a name out of the map.
C21_DeletedChangesNothing ==
    [][/\ (nEv' # nEv /\ scEv'.type = "DELETED") =>
             /\ scServers' = scServers
             /\ cacheFile' = cacheFile
             /\ scSaves' = scSaves
             /\ scNotes' = scNotes
             /\ scPending' = scPending
             /\ scRunning' = scRunning
       /\ ScKnown(scServers) \subseteq ScKnown(scServers')
       /\ scRunning \subseteq scRunning']_vars

\* a DELETED event has come for a server that is known and has a session
C21_Witness ==
    /\ scEv.type = "DELETED"
    /\ scEv.names \subseteq ScKnown(scServers)
    /\ scEv.names \subseteq scRunning
    /\ cacheFile.exists

\* C22: after a successful list reconcile (fetchBMH), a server that was in
\* the map and is absent from the fetched list is no longer in the map.
C22_ListRemovesAbsent ==
    [][(nEv' # nEv /\ scEv'.type = "LIST") =>
          \A n \in ScKnown(scServers) : n \notin scEv'.names => n \notin ScKnown(scServers')]_vars

\* a file that is not there or holds the whole of one save
Whole(f) == f.bytes \in {"gone", "all"}

\* C23: the inventory cache file and the analytics file each hold, at every
\* instant and also after a kill in the middle of a save, the complete
\* contents of one save (or do not exist yet), never a part of them.
C23_FilesReplacedAtomically == Whole(cPath) /\ Whole(aPath)


\* C24: a chunk that is one printable line ended by CR LF or LF, written to
\* a fresh log, appends exactly that line followed by one newline.
PlainLine(chunk) ==
    \E line \in SeqsUpTo({"a", "H", "1"}, MaxLogChunk) \ {<<>>} :
        chunk = line \o <<CR, LF>> \/ chunk = line \o <<LF>>

C24_OneLineOneNewline ==
    (nWrites = 1 /\ PlainLine(lastChunk)) => logFile = LineOf(lastChunk) \o <<LF>>


\* C25: after any sequence of Write calls the log file of the server never
\* holds three or more newlines in a row.
C25_NoThreeNewlines ==
    \A i \in 1..(Len(logFile) - 2) :
        ~(logFile[i] = LF /\ logFile[i + 1] = LF /\ logFile[i + 2] = LF)


\* C26: when a raw input is cut into two chunks A and B inside an ANSI escape
\* sequence, writing A and then B appends the same bytes to the log as
\* writing the one chunk A followed by B from the same writer state.
InsideEscape(A, B) ==
    \E i \in 1..Len(A) : i + AnsiLen(A \o B, i) - 1 > Len(A)

AndThen(first, B, now) == first.out \o Write(first.w, B, now).out

C26_SplitEscapeSameBytes ==
    \A A, B \in LwChunks :
        InsideEscape(A, B) =>
            AndThen(Write(writer, A, clock), B, clock) = Write(writer, A \o B, clock).out


\* how many lines of the bytes out are the line
Copies(out, line) ==
    Cardinality({i \in 1..Len(SplitLF(out)) : SplitLF(out)[i] = line})

StartsWith(out, prefix) ==
    Len(out) >= Len(prefix) /\ SubSeq(out, 1, Len(prefix)) = prefix

\* N >= 1 copies of a line that was new, all within Ttl of the first: the
\* log received one copy and the other N-1 were suppressed
OneCopy ==
    (run.n >= 1 /\ run.fresh /\ run.within) =>
        /\ Copies(run.out, run.line) = 1
        /\ writer.repeats.dupCount = run.n - 1

\* the step is the Write of a line other than the N >= 2 copies before it
DifferentLineAfter(line) ==
    /\ nWrites' = nWrites + 1
    /\ lastChunk' = line \o <<LF>>
    /\ run.n >= 2 /\ run.fresh /\ run.within
    /\ line # run.line

RotateStep == nRtOps' = nRtOps + 1 /\ rtOp' = "Rotate"

\* C28: a Rotate within 120 s of the last rotation of the server, which left
\* an open log file and current.log, leaves the files on disk as they are:
\* no new log file, and current.log keeps its target.
C28_SecondRotateChangesNothing ==
    [][(/\ RotateStep
        /\ files' = StampName(rtNow)
        /\ files # "none"
        /\ currentLog.exists
        /\ lastRotation.exists
        /\ rtNow - lastRotation.at < Cooldown)
       => (/\ DOMAIN onDisk' = DOMAIN onDisk
           /\ currentLog'.exists
           /\ currentLog'.target = currentLog.target)]_vars

\* C29: a rotate request for a server that has a session stops the session
\* and starts it again, so the server has a new session after the request.
C29_RotateRestartsSession ==
    [][(RotateStep /\ sessions[RtServer] # 0)
       => (sessions'[RtServer] # 0 /\ sessions'[RtServer] # sessions[RtServer])]_vars

\* C30: whenever the writer holds an open log file for the server, the file
\* is on disk and current.log exists and points to it.
C30_OpenFileIsCurrentLog ==
    files # "none" =>
        /\ files \in DOMAIN onDisk
        /\ currentLog.exists
        /\ currentLog.target = files


\* C33: no interleaving of broadcast with Unsubscribe makes broadcast send
\* on a channel that Unsubscribe has closed.
C33_NoSendOnClosedChannel == ~panicked

\* C36: every chunk is enqueued at most once on each subscriber channel, and
\* is offered to every subscriber that stays registered throughout its
\* broadcast, also when Unsubscribe removes another subscriber meanwhile.
C36_OncePerSubscriber ==
    /\ \A c \in Chans : \A x \in Range(Handed(c)) : TimesHanded(c, x) = 1
    /\ (bc.pc = "returned" /\ ~panicked) =>
          \A c \in bc.stable \ bc.full : TimesHanded(c, bc.chunk) >= 1


\* the boot events of the server, oldest first
Boots ==
    analytics.bootHistory \o
        (IF analytics.currentBoot.active THEN <<analytics.currentBoot>> ELSE <<>>)

\* a chunk arrives and a new boot event is created for it
BootCreated ==
    /\ nTexts' = nTexts + 1
    /\ analytics'.totalReboots = analytics.totalReboots + 1

\* the chunk that arrives is the first one since the log was rotated at
\* lastRotation.at, and the rotation made a new log file
FirstChunkAfterRotation ==
    /\ nTexts' = nTexts + 1
    /\ lastRotation.exists /\ files # "none" /\ currentLog.exists
    /\ lastRotation.at < rtNow
    /\ analytics.lastSeen.exists => analytics.lastSeen.at < lastRotation.at

\* C31: when the first chunk after a rotation of the log at t0 creates a boot
\* event, that event carries rotationTime = t0 and powerOnDelay = (arrival
\* time of the chunk) - t0, and the mark is pending no longer; no two boot
\* events carry the same rotation mark.
C31_BootCarriesRotation ==
    [][/\ (FirstChunkAfterRotation /\ BootCreated) =>
             /\ analytics'.currentBoot.rotationTime = At(lastRotation.at)
             /\ analytics'.currentBoot.powerOnDelay = rtNow - lastRotation.at
             /\ ~analytics'.pendingRotation.exists
       /\ \A i, j \in 1..Len(Boots') :
             (i # j /\ Boots'[i].rotationTime.exists) =>
                 Boots'[i].rotationTime # Boots'[j].rotationTime]_vars

\* C32: a chunk in which an OS/image detector matches, processed while a boot
\* is active, leaves the detected name in the active boot event's detectedOS
\* and in currentOS, also when the name equals the previous currentOS.
C32_DetectedOSOnEveryBoot ==
    [][\A text \in Texts, bytes \in SaveOutcomes :
          (ProcessText(text, bytes) /\ text.os # ""
              /\ analytics'.currentBoot.active) =>
             /\ analytics'.currentBoot.detectedOS = text.os
             /\ analytics'.currentOS = text.os]_vars


\* the chunks whose broadcast has returned
Broadcast == 1..LastReturned

\* chunk x found the client's channel with room: fewer chunks than the
\* channel holds were handed to it before
HadRoom(x) ==
    Cardinality({i \in DOMAIN Handed(StreamChan) : Handed(StreamChan)[i] < x})
        < SubChanCap

\* C34: a client that was sent the screen-buffer catchup and then subscribed
\* and stays subscribed is handed every chunk broadcast after the catchup was
\* taken for which its channel had room, and is handed no chunk that the
\* catchup holds.
C34_CatchupThenSubscribe ==
    (stCatch.from = "screen" /\ chanSt[StreamChan] = "open") =>
        /\ \A x \in Broadcast :
              (x > stCatch.upTo /\ HadRoom(x)) => x \in Range(Handed(StreamChan))
        /\ Range(stCatch.bytes) \cap Range(Handed(StreamChan)) = {}


\* C35: a step of a supervisor task whose session has been cancelled (by
\* StopSession or by a StartSession that replaced it) does not mark its
\* session Connected and hands no chunk, clear-screen sequence or reset to
\* the subscribers, the screen buffer, the log or analytics.
C35_CancelledTaskPublishesNothing ==
    [][\A s \in SessIds :
          (sess[s].cancelled /\ tpc'[s] # tpc[s]) =>
             /\ sess'[s].connected => sess[s].connected
             /\ tpc'[s] # "loop" \/ tpc[s] # "publish"
             /\ handed' = handed]_vars


\* the inventory entry of n is what the session of n was started from: the
\* same address, and credentials that are the session's own or are empty
\* where the session has the configured fallback
SameAsStarted(n) ==
    /\ sessions[n] # 0
    /\ servers[n].known /\ servers[n].online
    /\ servers[n].ip = sess[sessions[n]].ip
    /\ EffUser(servers[n].user) = sess[sessions[n]].user
    /\ EffPass(servers[n].pass) = sess[sessions[n]].pass

\* C37: a notification that finds a server's address and credentials as they
\* were when its session was started sends the handler neither to
\* StopSession nor to StartSession for that server, also when the entry's
\* credentials are empty and the session has the fallback credentials.
C37_UnchangedNotificationKeepsSession ==
    [][\A h \in Handlers, n \in Names :
          (hnd[h].pc = "get" /\ SameAsStarted(n) /\ hnd'[h] # hnd[h]) =>
              hnd'[h].pc = "idle"]_vars


\* no notification is being handled and no restart is under way
Settled ==
    /\ \A h \in Handlers : hnd[h].pc = "idle"
    /\ hc.pc = "idle"

\* the task of session s starts a connect attempt: connectSOL makes its
\* transport for sess[s].ip
ConnectAttempt(s) == tpc[s] # "connect" /\ tpc'[s] = "connect"

\* C40: once the notification of an address change has been handled, every
\* connect attempt of the server's session is made to the address the
\* inventory has for the server.
C40_ConnectsToInventoryAddress ==
    [][\A n \in Names, s \in SessIds :
          (Settled /\ sessions[n] = s /\ servers[n].known /\ ConnectAttempt(s)) =>
              sess[s].ip = servers[n].ip]_vars


\* C38: when the session RestartSession read its address and credentials
\* from was stopped by another caller before RestartSession's own
\* StopSession ran, RestartSession's StartSession leaves no session for the
\* name.
C38_RestartKeepsStopped ==
    [][(hc.pc = "start" /\ hc.stopped = 0 /\ hc'.pc = "idle") =>
          sessions'[hc.n] = 0]_vars


\* arrivals i and j are the same packet: j is i sent again, every packet
\* between them having the same packet sequence number
SamePacket(i, j) ==
    /\ i < j
    /\ \A k \in i..j : bmcSent[k] = bmcSent[i]

\* C39: of a SOL data packet and the retransmissions of it that arrive, at
\* most one is put into the Read channel.
C39_RetransmitDeliveredOnce ==
    \A i, j \in Range(got \o readCh) : ~SamePacket(i, j)

=============================================================================
